---- MODULE Spec2Model ----
(***************************************************************************)
(* A model of tf_macros.py: the Model context manager (graph, session,     *)
(* coordinator, checkpointing, invocation), the composition operator >>    *)
(* of Units, the dispatch of Reduction.forward and the shape helper        *)
(* make_least_common_shape.                                                *)
(*                                                                         *)
(* Calls into the tensor framework are modelled by their effect on the     *)
(* fields of the Model object and by the outcomes the code distinguishes   *)
(* (a call returns, or it raises and the handler is left at that line).    *)
(***************************************************************************)
EXTENDS Integers, Sequences, FiniteSets, TLC

\* ------------------------------------------------------------------------
\* Bounds
\* ------------------------------------------------------------------------

\* number of operations performed on the Model objects in one behaviour
MaxOps == 5

\* number of tensors handed to a unit from outside
MaxInputs == 2

\* number of tensors handed to make_least_common_shape
MaxTensors == 3

\* number of applications of one Reduction unit
MaxForward == 2

\* number of operations on the units that are applied with an output_key
MaxCalls == 4

\* Python's None, for the fields that hold None or a string / an object
None == "None"

\* the Model objects of the program
Models == {"m1", "m2"}

\* values of the constructor argument model_directory: None, '' or a path
ModelDirectories == {None, "", "dir/"}

\* values of the constructor argument summary_directory: None or a path
SummaryDirectories == {None, "log/"}

\* keys under which tensors are registered
TensorKeys == {"a", "loss", "optimization", "dropout"}

\* names under which placeholders are registered
PlaceholderNames == {"x", "training"}

VARIABLES
    current,   \* Model.current: a model or None
    block,     \* the model whose with-block body is executing, or None
    models,    \* the fields of every Model object
    graph,     \* the default graph: number of tf.reset_default_graph() so far
    last,      \* what the most recent operation did
    nOps       \* operations performed so far

lifecycleVars == <<current, block, models, graph, last, nOps>>

VARIABLES
    units,     \* the Unit objects created so far, in order of creation
    result,    \* what the most recent use of >> did
    objects    \* the fields of the Unit objects that are applied with an output_key

unitVars == <<units, result, objects>>

VARIABLES
    given,     \* the arguments make_least_common_shape is called with
    lcs,       \* what the call of make_least_common_shape did
    mb         \* what the call of make_broadcastable did

shapeVars == <<given, lcs, mb>>

VARIABLES
    red,       \* the fields of a Reduction unit
    fwd,       \* what the most recent Reduction.forward did
    nFwd       \* applications of the Reduction unit so far

reductionVars == <<red, fwd, nFwd>>

VARIABLES
    var,       \* a Variable unit: the arguments of its constructor, then its fields
    net,       \* a ResidualNet unit: the arguments of its constructor, then its fields
    frac       \* a Fractal unit: the arguments of its constructor, then its fields

buildVars == <<var, net, frac>>

vars == <<lifecycleVars, unitVars, shapeVars, reductionVars, buildVars>>

\* ------------------------------------------------------------------------
\* Model.__init__
\* ------------------------------------------------------------------------

\* the fields of a Model after construction
NewModel(model_directory, summary_directory) ==
    [ model_directory   |-> model_directory,
      summary_directory |-> summary_directory,
      tensors           |-> {},
      variables         |-> {},
      placeholders      |-> {},
      num_parameters    |-> 0,
      num_bytes         |-> 0,
      first_registered  |-> {},        \* the arguments of the first registration of each variable key
      scope             |-> None,      \* None or "scope" (the scope object)
      session           |-> None,      \* None, "open" or "closed"
      coordinator       |-> None,      \* None, "started", "stop_requested", "joined"
      defined           |-> FALSE,
      optimization      |-> None,      \* None or "op"
      saver             |-> FALSE,     \* attribute self.saver exists
      summaries         |-> FALSE,     \* attribute self.summaries exists
      training          |-> FALSE,     \* attributes self.training exists
      dropout           |-> FALSE,     \* attribute self.dropout exists
      session_in_block  |-> FALSE,     \* the session was created in the with-block
      graph             |-> 0,         \* the default graph at the last __enter__
      scope_enters      |-> 0,         \* calls of scope.__enter__
      scope_exits       |-> 0,         \* calls of scope.__exit__
      built             |-> 0,         \* times the training graph was built
      checkpoints       |-> 0 ]        \* calls of saver.save

\* what an operation did: the operation, its model, how it ended ("ok",
\* "rejected" by an assertion of its own before any effect, "raised" after
\* some effect), the framework calls it made in order, and for __call__ the
\* fetches and feeds handed to session.run and the dictionary returned
Outcome(op, m, status, steps) ==
    [ op |-> op, m |-> m, status |-> status, steps |-> steps,
      session |-> None, fetches |-> {}, feed_data |-> {},
      feed_training |-> {}, feed_dropout |-> {}, returned |-> {},
      optimize |-> FALSE,
      args |-> <<>>,               \* for register_* and Unit.__call__: its arguments
      output |-> [kind |-> "none", tensors |-> <<>>],   \* for Unit.__call__: what it returned
      events |-> <<>>,             \* for Unit.__call__: the initialize and forward bodies it ran
      feed_dict |-> {},            \* for __call__: feed_dict as handed to session.run
      data |-> [kind |-> "none", names |-> {}],    \* for __call__: its data argument
      dropout |-> {},              \* for __call__: its dropout argument
      query |-> [kind |-> "none", names |-> {}],   \* for __call__: its query argument
      kind |-> None,               \* for __exit__: "normal" or "raised" body
      current_before |-> current ] \* Model.current when the operation began

\* truth value of a string-or-None field, as `if self.model_directory:` takes it
Truthy(s) == s # None /\ s # ""

\* outcomes of optimizer.compute_gradients / apply_gradients: the step is
\* built, ValueError('No variables to optimize.'), or another ValueError
GradOutcomes == {"ok", "no_variables", "error"}

\* the framework call of a handler that raises, if one does
Failures == {"none", "join", "save", "restore"}

\* one operation is performed
Tick == nOps < MaxOps /\ nOps' = nOps + 1

\* ------------------------------------------------------------------------
\* Model.register_tensor, Model.register_placeholder
\* ------------------------------------------------------------------------

\* a tensor of the graph: what made it, and which of those it is
GraphTensor(name, n) == [name |-> name, n |-> n]

\* the tensors handed to register_tensor
TensorArguments == { GraphTensor("t", 1), GraphTensor("t", 2) }

\* the keys of Model.tensors
RegisteredKeys(r) == { e.key : e \in r.tensors }

\* self.tensors[key] = tensor
SetTensor(r, key, tensor) ==
    [r EXCEPT !.tensors = { e \in @ : e.key # key } \cup { [key |-> key, tensor |-> tensor] }]

\* register_tensor asserting on the reserved keys only
RegisterTensorAccepts_reserved_only(r, key) == key \notin {"loss", "dropout"}

\* the assertions of register_tensor
RegisterTensorAccepts(r, key) ==
    key \notin {"loss", "dropout"} /\ key \notin RegisteredKeys(r)

register_tensor(m, key, tensor) ==
    /\ Tick
    /\ current = m
    /\ IF ~RegisterTensorAccepts(models[m], key)
       THEN /\ last' = [Outcome("register_tensor", m, "rejected", <<>>)
                           EXCEPT !.args = <<key, tensor>>]
            /\ UNCHANGED models
       ELSE /\ models' = [models EXCEPT ![m] = SetTensor(@, key, tensor)]
            /\ last' = [Outcome("register_tensor", m, "ok", <<>>)
                           EXCEPT !.args = <<key, tensor>>]
    /\ UNCHANGED <<current, block, graph>>

\* the arguments of register_variable
VariableKeys == { "w", "b" }
VariableArguments == { "v1", "v2" }
SizeArguments == { <<1, 4>>, <<2, 8>>, <<2, 16>> }

\* the keys of Model.variables
VariableKeysOf(r) == { e.key : e \in r.variables }

\* what register_variable did to the fields of the model, and whether its
\* assertion failed
Registered(r, rejected) == [r |-> r, rejected |-> rejected]

\* register_variable adding to the counters for a registered key as well
RegisterVariable_counts_again(r, key, variable, num_parameters, num_bytes) ==
    IF key \in VariableKeysOf(r)
    THEN IF [key |-> key, variable |-> variable] \notin r.variables
         THEN Registered(r, TRUE)
         ELSE Registered([r EXCEPT !.num_parameters = @ + num_parameters,
                                   !.num_bytes = @ + num_bytes], FALSE)
    ELSE Registered([r EXCEPT !.variables = @ \cup { [key |-> key, variable |-> variable] },
                              !.num_parameters = @ + num_parameters,
                              !.num_bytes = @ + num_bytes,
                              !.first_registered = @ \cup
                                  { [ key |-> key, num_parameters |-> num_parameters,
                                      num_bytes |-> num_bytes ] }], FALSE)

\* Model.register_variable(key, variable, num_parameters, num_bytes)
RegisterVariable(r, key, variable, num_parameters, num_bytes) ==
    IF key \in VariableKeysOf(r)
    THEN IF [key |-> key, variable |-> variable] \notin r.variables
         THEN Registered(r, TRUE)
         ELSE Registered(r, FALSE)
    ELSE Registered([r EXCEPT !.variables = @ \cup { [key |-> key, variable |-> variable] },
                              !.num_parameters = @ + num_parameters,
                              !.num_bytes = @ + num_bytes,
                              !.first_registered = @ \cup
                                  { [ key |-> key, num_parameters |-> num_parameters,
                                      num_bytes |-> num_bytes ] }], FALSE)

register_variable(m, key, variable, size) ==
    /\ Tick
    /\ LET e == RegisterVariable(models[m], key, variable, size[1], size[2])
       IN  /\ models' = [models EXCEPT ![m] = e.r]
           /\ last' = [Outcome("register_variable", m, IF e.rejected THEN "rejected" ELSE "ok", <<>>)
                          EXCEPT !.args = <<key, variable, size[1], size[2]>>]
    /\ UNCHANGED <<current, block, graph>>

\* a placeholder: the attribute or the key it was created for and the
\* default graph it was created in
Placeholder(name, g) == [name |-> name, graph |-> g]

\* the control placeholders of a model that was entered
Training(r) == Placeholder("self.training", r.graph)
Dropout(r) == Placeholder("self.dropout", r.graph)

\* the keys of Model.placeholders
PlaceholderKeys(r) == { e.key : e \in r.placeholders }

\* the placeholder argument of register_placeholder: a placeholder made for
\* the key, or a control placeholder of the model
PlaceholderArguments == { "new", "self.training", "self.dropout" }

register_placeholder(m, key, placeholder) ==
    /\ Tick
    /\ current = m
    /\ IF key \in PlaceholderKeys(models[m])
       THEN /\ last' = Outcome("register_placeholder", m, "rejected", <<>>)
            /\ UNCHANGED models
       ELSE /\ models' = [models EXCEPT ![m].placeholders = @ \cup
                    { [ key |-> key,
                        placeholder |-> CASE placeholder = "new" -> Placeholder(key, graph)
                                          [] placeholder = "self.training" -> Training(models[m])
                                          [] placeholder = "self.dropout" -> Dropout(models[m]) ] }]
            /\ last' = Outcome("register_placeholder", m, "ok", <<>>)
    /\ UNCHANGED <<current, block, graph>>

\* ------------------------------------------------------------------------
\* Model.__enter__
\* ------------------------------------------------------------------------

\* outcomes of tf.reset_default_graph(): the default graph is replaced, or,
\* while a variable scope is entered, the framework may refuse to clear a
\* nested graph and raise an AssertionError of its own
ResetOutcomes == {"ok", "nested"}

\* the default graph is reset before Model.current is looked at; the two
\* control inputs are registered as placeholders and popped again
Enter(m, reset) ==
    /\ Tick
    /\ reset = "nested" => \E n \in Models : models[n].scope_enters > models[n].scope_exits
    /\ graph' = IF reset = "nested" THEN graph ELSE graph + 1
    /\ IF reset = "nested"
       THEN /\ last' = Outcome("enter", m, "rejected", <<>>)
            /\ UNCHANGED <<current, block, models>>
       ELSE IF current # None
       THEN /\ last' = Outcome("enter", m, "rejected", <<"reset_default_graph">>)
            /\ UNCHANGED <<current, block, models>>
       ELSE LET r1 == [models[m] EXCEPT !.scope = "scope",
                                        !.scope_enters = @ + 1,
                                        !.graph = graph + 1]
                r2 == [r1 EXCEPT !.training = TRUE]
                r3 == [r2 EXCEPT !.dropout = TRUE]
            IN  /\ current' = m
                /\ IF "training" \in PlaceholderKeys(r1)
                   THEN /\ models' = [models EXCEPT ![m] = r1]
                        /\ last' = Outcome("enter", m, "raised", <<"reset_default_graph", "scope_enter">>)
                        /\ UNCHANGED block
                   ELSE IF "dropout" \in PlaceholderKeys(r2)
                   THEN /\ models' = [models EXCEPT ![m] = r2]
                        /\ last' = Outcome("enter", m, "raised", <<"reset_default_graph", "scope_enter">>)
                        /\ UNCHANGED block
                   ELSE /\ models' = [models EXCEPT ![m] = r3]
                        /\ last' = Outcome("enter", m, "ok", <<"reset_default_graph", "scope_enter">>)
                        /\ block' = m

\* ------------------------------------------------------------------------
\* the training graph, built by finalize and by __exit__
\* ------------------------------------------------------------------------

\* regularization losses, tensors['loss'] and the optimization op
BuildTrainingGraph(r, grad) ==
    [SetTensor(r, "loss", GraphTensor("total_loss", r.built + 1))
       EXCEPT !.built = @ + 1,
              !.optimization = IF grad = "ok" THEN "apply_gradients"
                               ELSE IF grad = "no_variables" /\ @ = None THEN "no_op"
                               ELSE @]

\* ------------------------------------------------------------------------
\* Model.finalize
\* ------------------------------------------------------------------------

\* finalize without its assertion
FinalizeGuard_absent(r) == TRUE

\* the assertion that guards finalize
FinalizeGuard(r) == ~r.defined

Finalize(m, restore, grad, fail) ==
    /\ Tick
    /\ fail \in {"none", "restore"}
    /\ IF ~FinalizeGuard(models[m])
       THEN /\ last' = Outcome("finalize", m, "rejected", <<>>)
            /\ UNCHANGED models
       ELSE LET r1 == BuildTrainingGraph(models[m], grad)
                r2 == [r1 EXCEPT !.saver = @ \/ r1.model_directory # None,
                                 !.summaries = @ \/ r1.summary_directory # None]
                r3 == [r2 EXCEPT !.scope = None,
                                 !.scope_exits = @ + 1,
                                 !.defined = TRUE,
                                 !.session = "open",
                                 !.session_in_block = (block = m)]
                r4 == [r3 EXCEPT !.coordinator = "started"]
            IN  IF grad = "error"
                THEN /\ models' = [models EXCEPT ![m] = r1]
                     /\ last' = Outcome("finalize", m, "raised", <<>>)
                ELSE IF r2.scope = None
                THEN /\ models' = [models EXCEPT ![m] = r2]
                     /\ last' = Outcome("finalize", m, "raised", <<>>)
                ELSE IF restore /\ (~Truthy(r3.model_directory) \/ fail = "restore")
                THEN /\ models' = [models EXCEPT ![m] = r3]
                     /\ last' = Outcome("finalize", m, "raised", <<"scope_exit", "session">>)
                ELSE /\ models' = [models EXCEPT ![m] = r4]
                     /\ last' = Outcome("finalize", m, "ok",
                                        <<"scope_exit", "session",
                                          IF restore THEN "restore" ELSE "initialize",
                                          "start_queue_runners">>)
    /\ UNCHANGED <<current, block, graph>>

\* ------------------------------------------------------------------------
\* Model.save
\* ------------------------------------------------------------------------

\* A part of a handler: the fields it leaves, the framework calls it made
\* and whether it raised
Part(r, steps, raised) == [r |-> r, steps |-> steps, raised |-> raised]

\* save() testing model_directory against None instead of its truth value
save_not_None(r, fail) ==
    IF ~r.defined
    THEN Part(r, <<>>, TRUE)
    ELSE IF r.model_directory # None
    THEN IF fail = "save" \/ r.session # "open"
         THEN Part(r, <<"save">>, TRUE)
         ELSE Part([r EXCEPT !.checkpoints = @ + 1], <<"save", "checkpoint">>, FALSE)
    ELSE Part(r, <<"save">>, FALSE)

\* save(): the checkpoint is written if model_directory is a non-empty
\* string; saver.save raises on a failing write and on a closed session
save(r, fail) ==
    IF ~r.defined
    THEN Part(r, <<>>, TRUE)
    ELSE IF Truthy(r.model_directory)
    THEN IF fail = "save" \/ r.session # "open"
         THEN Part(r, <<"save">>, TRUE)
         ELSE Part([r EXCEPT !.checkpoints = @ + 1], <<"save", "checkpoint">>, FALSE)
    ELSE Part(r, <<"save">>, FALSE)

\* ------------------------------------------------------------------------
\* Model.__exit__
\* ------------------------------------------------------------------------

\* the branch of __exit__ for a body that raised: the scope is left, the
\* queue threads are stopped and joined, the session is closed
ExceptionShutdown(r0, fail) ==
    LET r1 == IF r0.scope # None THEN [r0 EXCEPT !.scope_exits = @ + 1] ELSE r0
        s1 == IF r0.scope # None THEN <<"scope_exit">> ELSE <<>>
        r2 == [r1 EXCEPT !.coordinator = "stop_requested"]
        r3 == IF r1.coordinator # None THEN [r1 EXCEPT !.coordinator = "joined"] ELSE r1
        s3 == IF r1.coordinator # None THEN s1 \o <<"request_stop", "join">> ELSE s1
        r4 == IF r3.session # None THEN [r3 EXCEPT !.session = "closed"] ELSE r3
        s4 == IF r3.session # None THEN s3 \o <<"close">> ELSE s3
    IN  IF r1.coordinator # None /\ fail = "join"
        THEN Part(r2, s1 \o <<"request_stop">>, TRUE)
        ELSE Part(r4, s4, FALSE)

\* the shutdown with the session closed before the checkpoint is written
Shutdown_close_first(r0, fail) ==
    LET r1 == [r0 EXCEPT !.coordinator = "stop_requested"]
        r2 == [r1 EXCEPT !.coordinator = "joined", !.session = "closed"]
        sv == save(r2, fail)
    IN  IF r0.coordinator = None
        THEN Part(r0, <<>>, TRUE)
        ELSE IF fail = "join"
        THEN Part(r1, <<"request_stop">>, TRUE)
        ELSE IF sv.raised
        THEN Part(sv.r, <<"request_stop", "join", "close">> \o sv.steps, TRUE)
        ELSE Part(sv.r, <<"request_stop", "join", "close">> \o sv.steps, FALSE)

\* the branch of __exit__ for a finalized model whose body ended normally
Shutdown(r0, fail) ==
    LET r1 == [r0 EXCEPT !.coordinator = "stop_requested"]
        r2 == [r1 EXCEPT !.coordinator = "joined"]
        sv == save(r2, fail)
        r4 == [sv.r EXCEPT !.session = "closed"]
    IN  IF r0.coordinator = None
        THEN Part(r0, <<>>, TRUE)
        ELSE IF fail = "join"
        THEN Part(r1, <<"request_stop">>, TRUE)
        ELSE IF sv.raised
        THEN Part(sv.r, <<"request_stop", "join">> \o sv.steps, TRUE)
        ELSE Part(r4, <<"request_stop", "join">> \o sv.steps \o <<"close">>, FALSE)

\* the branch of __exit__ for a model that was not finalized: the training
\* graph is built and the scope is left
Completion(r0, grad) ==
    LET r1 == BuildTrainingGraph(r0, grad)
        r2 == [r1 EXCEPT !.scope_exits = @ + 1]
    IN  IF grad = "error"
        THEN Part(r1, <<>>, TRUE)
        ELSE Part(r2, <<"scope_exit">>, FALSE)

\* __exit__(type, value, tb) with type not None: the body raised
ExitRaise(m, fail) ==
    /\ Tick
    /\ block = m
    /\ fail \in {"none", "join"}
    /\ block' = None
    /\ LET p == ExceptionShutdown(models[m], fail)
       IN  /\ models' = [models EXCEPT ![m] = p.r]
           /\ last' = [Outcome("exit", m, IF p.raised THEN "raised" ELSE "ok", p.steps)
                          EXCEPT !.kind = "raised", !.session = models[m].session]
           /\ current' = IF p.raised THEN current ELSE None
    /\ UNCHANGED graph

\* __exit__(None, None, None): the body ended normally
ExitNormal(m, grad, fail) ==
    /\ Tick
    /\ block = m
    /\ fail \in {"none", "join", "save"}
    /\ block' = None
    /\ LET p == IF models[m].defined THEN Shutdown(models[m], fail)
                                      ELSE Completion(models[m], grad)
       IN  /\ models' = [models EXCEPT ![m] = p.r]
           /\ last' = [Outcome("exit", m, IF p.raised THEN "raised" ELSE "ok", p.steps)
                          EXCEPT !.kind = "normal", !.session = models[m].session]
           /\ current' = IF p.raised THEN current ELSE None
    /\ UNCHANGED graph

\* ------------------------------------------------------------------------
\* Model.__call__
\* ------------------------------------------------------------------------

\* the query argument: None, one name, or a collection of names
Queries ==
    { [kind |-> "none", names |-> {}],
      [kind |-> "str", names |-> {"a"}],
      [kind |-> "names", names |-> {"a", "loss"}],
      [kind |-> "names", names |-> {"optimization"}] }

\* the data argument: None, a dictionary (its keys), or a bare value
Datas ==
    { [kind |-> "none", names |-> {}],
      [kind |-> "dict", names |-> {"x", "y"}],
      [kind |-> "dict", names |-> {"training"}],
      [kind |-> "value", names |-> {}] }

\* the dropout argument in percent: None is the empty set
Dropouts == { {}, {50}, {100} }

\* an entry of the fetches dictionary: its key and the graph element it
\* names (a registered tensor, self.optimization or self.summaries)
Fetch(key, element, name) == [key |-> key, element |-> element, name |-> name]

\* the keys of a fetches dictionary
Keys(fetches) == { f.key : f \in fetches }

\* the fetches built from the query
QueryFetches(query) ==
    CASE query.kind = "none"  -> {}
      [] query.kind = "str"   -> { Fetch("query", "tensor", n) : n \in query.names }
      [] query.kind = "names" -> { Fetch(n, "tensor", n) : n \in query.names }

\* the registered placeholders fed from the data argument
DataFeeds(r, data) ==
    CASE data.kind = "none"  -> {}
      [] data.kind = "dict"  -> data.names \cap PlaceholderKeys(r)
      [] data.kind = "value" -> PlaceholderKeys(r)

\* an entry of feed_dict: the placeholder fed, the argument of __call__ the
\* value comes from, and the value (True is 1, a dropout is in percent)
Feed(placeholder, from, value) == [placeholder |-> placeholder, from |-> from, value |-> value]

\* the entries of feed_dict written from the data argument
DataEntries(r, data) ==
    { Feed(e.placeholder, "data", 1) : e \in { e \in r.placeholders : e.key \in DataFeeds(r, data) } }

\* the entries of feed_dict written for the control placeholders
ControlEntries(r, optimize, dropout) ==
    { Feed(Training(r), "optimize", IF optimize THEN 1 ELSE 0) }
        \cup { Feed(Dropout(r), "dropout", d) : d \in (IF dropout = {} THEN {0} ELSE dropout) }

\* feed_dict with the control placeholders written first, the data after
FeedDict_data_last(r, data, optimize, dropout) ==
    LET written == { f.placeholder : f \in DataEntries(r, data) }
    IN  DataEntries(r, data)
            \cup { f \in ControlEntries(r, optimize, dropout) : f.placeholder \notin written }

\* feed_dict as handed to session.run: the data entries are written first
\* (lines 249-255), the control entries after (lines 256-269); a later
\* write to the same placeholder replaces the earlier one
FeedDict(r, data, optimize, dropout) ==
    LET written == { f.placeholder : f \in ControlEntries(r, optimize, dropout) }
    IN  { f \in DataEntries(r, data) : f.placeholder \notin written }
            \cup ControlEntries(r, optimize, dropout)

\* the training placeholder fed with False whatever optimize is
TrainingFeed_always_False(optimize) == FALSE

\* the value fed to the training placeholder
TrainingFeed(optimize) == IF optimize THEN TRUE ELSE FALSE

\* the optimization fetch, added when optimize is set
OptimizationFetch(r, optimize) ==
    IF optimize THEN { Fetch("optimization", "optimization", r.optimization) } ELSE {}

\* the summaries fetch, added when summarize is set and summaries are written
SummariesFetch(r, summarize) ==
    IF r.summary_directory # None /\ summarize
    THEN { Fetch("summaries", "summaries", "summaries") } ELSE {}

\* the fetches handed to session.run
RunFetches(r, query, optimize, summarize) ==
    QueryFetches(query) \cup OptimizationFetch(r, optimize) \cup SummariesFetch(r, summarize)

\* the dictionary returned when nothing is popped from what was fetched
Returned_unpopped(r, query, optimize, summarize) ==
    RunFetches(r, query, optimize, summarize)

\* the entries of the dictionary returned: what was fetched, with the keys
\* of the internal fetches popped
Returned(r, query, optimize, summarize) ==
    LET popped == (IF optimize THEN {"optimization"} ELSE {})
                      \cup (IF r.summary_directory # None /\ summarize THEN {"summaries"} ELSE {})
    IN  { f \in RunFetches(r, query, optimize, summarize) : f.key \notin popped }

\* __call__ without its assertion
CallGuard_absent(r) == TRUE

\* the assertion that guards __call__
CallGuard(r) == r.session # None

Call(m, query, data, optimize, summarize, dropout) ==
    /\ Tick
    /\ LET r == models[m]
           invoked == [Outcome("call", m, "ok", <<"run">>) EXCEPT
                          !.session = r.session,
                          !.fetches = RunFetches(r, query, optimize, summarize),
                          !.feed_data = DataFeeds(r, data),
                          !.feed_training = {TrainingFeed(optimize)},
                          !.feed_dropout = IF dropout = {} THEN {0} ELSE dropout,
                          !.optimize = optimize,
                          !.feed_dict = FeedDict(r, data, optimize, dropout),
                          !.data = data,
                          !.dropout = dropout,
                          !.query = query]
       IN  IF ~CallGuard(r)
           THEN last' = [Outcome("call", m, "rejected", <<>>) EXCEPT !.optimize = optimize]
           ELSE IF \/ ~(query.names \subseteq RegisteredKeys(r))
                   \/ data.kind = "value" /\ Cardinality(r.placeholders) # 1
                   \/ optimize /\ "optimization" \in Keys(QueryFetches(query))
                   \/ (r.summary_directory # None /\ summarize
                          /\ "summaries" \in Keys(QueryFetches(query)))
                   \/ \E d \in dropout : ~(0 <= d /\ d < 100)
           THEN last' = [Outcome("call", m, "rejected", <<>>) EXCEPT !.optimize = optimize]
           ELSE IF \/ r.session = "closed"
                   \/ \E f \in FeedDict(r, data, optimize, dropout) : f.placeholder.graph # r.graph
           THEN last' = [invoked EXCEPT !.status = "raised"]
           ELSE last' = [invoked EXCEPT !.returned = Returned(r, query, optimize, summarize)]
    /\ UNCHANGED <<current, block, models, graph>>

\* ------------------------------------------------------------------------
\* Units
\* ------------------------------------------------------------------------

\* A Unit object: its class, num_in and num_out (-1: any number), the
\* number of tensors its forward returns (0: as many as it is given),
\* whether its forward constructs units or registers with Model.current
\* and, for a Composed unit, its first and second unit (0: none); the first
\* of a Composed unit of class "Composed[list]" is its list of items
UnitObject(cls, num_in, num_out, returns, needs_model, first, second) ==
    [ cls |-> cls, num_in |-> num_in, num_out |-> num_out, returns |-> returns,
      needs_model |-> needs_model, first |-> first, second |-> second ]

\* the unit classes: an Input of a placeholder and an Input of a given
\* tensor, layers and outputs, and the units of any arity
UnitClasses ==
    << UnitObject("Input", 0, 1, 1, TRUE, 0, 0),
       UnitObject("Input", 0, 1, 1, FALSE, 0, 0),
       UnitObject("Linear", 1, 1, 1, TRUE, 0, 0),
       UnitObject("Output", 1, 2, 2, TRUE, 0, 0),
       UnitObject("FiLM", 2, 1, 1, TRUE, 0, 0),
       UnitObject("Rnn", 2, 2, 2, TRUE, 0, 0),
       UnitObject("Reduction", -1, 1, 1, FALSE, 0, 0),
       UnitObject("Print", -1, -1, 0, FALSE, 0, 0),
       UnitObject("Split", 1, -1, 2, FALSE, 0, 0) >>

\* A tensor: the unit that returned it (0: handed in from outside), its
\* position among the outputs of that application, and the inputs of that
\* application
Tensor(src, idx, args) == [src |-> src, idx |-> idx, args |-> args]

\* n tensors from outside
Inputs(n) == [i \in 1..n |-> Tensor(0, i, <<>>)]

\* What an operand or a result of >> is: a unit, or tensors (one Tensor or
\* a tuple of them)
UnitValue(u) == [kind |-> "unit", unit |-> u, tensors |-> <<>>]
TensorValue(xs) == [kind |-> "tensors", unit |-> 0, tensors |-> xs]

\* a tuple or list operand of >>: its items are units and single tensors
ListValue(items) == [kind |-> "list", unit |-> 0, tensors |-> items]

\* An evaluation: the units afterwards, whether it was accepted, its value
\* and the applications of base units it made, in order
Evaluation(h, ok, value, calls) == [h |-> h, ok |-> ok, value |-> value, calls |-> calls]

Rejected(h, calls) == Evaluation(h, FALSE, TensorValue(<<>>), calls)

\* the assertion of Unit.forward on the number of inputs
ArityAccepts(unit, n) == n = unit.num_in \/ unit.num_in = -1

\* Unit.__call__ on a unit of the units h with the inputs xs, while cur is
\* the current model: forward runs, a Composed unit hands xs to its first
\* unit and the result to its second
RECURSIVE Apply(_, _, _, _)

\* tensors >> unit
Rrshift(h, cur, u, xs) ==
    IF Len(xs) = 1 \/ ArityAccepts(h[u], Len(xs)) THEN Apply(h, cur, u, xs)
    ELSE Rejected(h, <<>>)

\* lines 410-415: the units among the items of a Composed of a list are
\* applied to xs from item k on, the tensors among them are kept
RECURSIVE ApplyItems(_, _, _, _, _)
ApplyItems(h, cur, items, xs, k) ==
    LET then(r1, r2) ==
            IF ~r1.ok THEN r1
            ELSE IF Len(r1.value.tensors) # 1 THEN Rejected(h, r1.calls)
            ELSE Evaluation(h, r2.ok, TensorValue(r1.value.tensors \o r2.value.tensors),
                            r1.calls \o r2.calls)
    IN  IF k > Len(items) THEN Evaluation(h, TRUE, TensorValue(<<>>), <<>>)
        ELSE then(IF items[k].kind = "unit" THEN Rrshift(h, cur, items[k].unit, xs)
                  ELSE Evaluation(h, TRUE, items[k], <<>>),
                  ApplyItems(h, cur, items, xs, k + 1))

Apply(h, cur, u, xs) ==
    LET after(r1, r2) == [r2 EXCEPT !.calls = r1.calls \o r2.calls]
        second(r1) ==
            IF ~r1.ok THEN IF h[u].cls = "Composed" THEN r1 ELSE Rejected(h, r1.calls)
            ELSE after(r1, Rrshift(h, cur, h[u].second, r1.value.tensors))
    IN
    IF ~ArityAccepts(h[u], Len(xs)) THEN Rejected(h, <<>>)
    ELSE IF h[u].cls = "Composed[list]" THEN second(ApplyItems(h, cur, h[u].first, xs, 1))
    ELSE IF h[u].cls = "Composed" THEN second(Rrshift(h, cur, h[u].first, xs))
    ELSE LET n == IF h[u].returns = 0 THEN Len(xs) ELSE h[u].returns
         IN  IF h[u].needs_model /\ cur = None THEN Rejected(h, <<>>)
             ELSE IF n = 0 THEN Rejected(h, <<>>)
             ELSE Evaluation(h, TRUE,
                             TensorValue([i \in 1..n |-> Tensor(u, i, xs)]),
                             << [unit |-> u, args |-> xs] >>)

\* the arity condition of Composed.__init__ for a first unit
Composable(first, second) ==
    first.num_out = second.num_in \/ second.num_in = -1

\* Composed.__init__ taking num_in from its second unit
ComposedInit_num_in_of_second(h, cur, first, second) ==
    IF ~Composable(h[first], h[second]) THEN Rejected(h, <<>>)
    ELSE IF cur = None THEN Rejected(h, <<>>)
    ELSE Evaluation(Append(h, UnitObject("Composed", h[second].num_in, h[second].num_out,
                                         h[second].returns, FALSE, first, second)),
                    TRUE, UnitValue(Len(h) + 1), <<>>)

\* Composed.__init__ taking num_out from its first unit
ComposedInit_num_out_of_first(h, cur, first, second) ==
    IF ~Composable(h[first], h[second]) THEN Rejected(h, <<>>)
    ELSE IF cur = None THEN Rejected(h, <<>>)
    ELSE Evaluation(Append(h, UnitObject("Composed", h[first].num_in, h[first].num_out,
                                         h[first].returns, FALSE, first, second)),
                    TRUE, UnitValue(Len(h) + 1), <<>>)

\* Composed(first, second) for a unit first: the new unit is appended
ComposedInit(h, cur, first, second) ==
    IF ~Composable(h[first], h[second]) THEN Rejected(h, <<>>)
    ELSE IF cur = None THEN Rejected(h, <<>>)
    ELSE Evaluation(Append(h, UnitObject("Composed", h[first].num_in, h[second].num_out,
                                         h[second].returns, FALSE, first, second)),
                    TRUE, UnitValue(Len(h) + 1), <<>>)

\* unit >> other: a source unit is evaluated and other applied to its
\* output, any other unit is composed with other
UnitRshift(h, cur, u, other) ==
    LET after(r1, r2) == [r2 EXCEPT !.calls = r1.calls \o r2.calls]
        into(r1) ==
            IF ~r1.ok THEN r1 ELSE after(r1, Apply(h, cur, other.unit, r1.value.tensors))
    IN
    IF other.kind # "unit" THEN Rejected(h, <<>>)
    ELSE IF h[u].cls # "Composed" /\ h[u].num_in = 0
    THEN IF ~Composable(h[u], h[other.unit]) THEN Rejected(h, <<>>)
         ELSE into(Apply(h, cur, u, <<>>))
    ELSE ComposedInit(h, cur, u, other.unit)

\* Composed.__init__ for a list first, taking num_in from the length of the list
ComposedListInit_num_in_of_len(h, cur, items, second) ==
    IF \E k \in 1..Len(items) : items[k].kind = "unit" /\ h[items[k].unit].num_out # 1
    THEN Rejected(h, <<>>)
    ELSE IF ~(Len(items) = h[second].num_in \/ h[second].num_in = -1) THEN Rejected(h, <<>>)
    ELSE IF cur = None THEN Rejected(h, <<>>)
    ELSE Evaluation(Append(h, UnitObject("Composed[list]", Len(items), h[second].num_out,
                                         h[second].returns, FALSE, items, second)),
                    TRUE, UnitValue(Len(h) + 1), <<>>)

\* Composed(first, second) for a list first of units and tensors
ComposedListInit(h, cur, items, second) ==
    IF \E k \in 1..Len(items) : items[k].kind = "unit" /\ h[items[k].unit].num_out # 1
    THEN Rejected(h, <<>>)
    ELSE IF ~(Len(items) = h[second].num_in \/ h[second].num_in = -1) THEN Rejected(h, <<>>)
    ELSE IF cur = None THEN Rejected(h, <<>>)
    ELSE Evaluation(Append(h, UnitObject("Composed[list]", 1, h[second].num_out,
                                         h[second].returns, FALSE, items, second)),
                    TRUE, UnitValue(Len(h) + 1), <<>>)

\* the loop of lines 357-368 from item k on: a tensor is kept, a source
\* unit is replaced by the tensor it returns, any other unit is kept; the
\* value is the list of the items afterwards
RECURSIVE EvaluateSources(_, _, _, _)
EvaluateSources(h, cur, items, k) ==
    LET source(x) == x.kind = "unit" /\ h[x.unit].num_in = 0
        then(x, r1, r2) ==
            IF ~r1.ok THEN Rejected(h, r1.calls)
            ELSE IF source(x) /\ Len(r1.value.tensors) # 1 THEN Rejected(h, r1.calls)
            ELSE Evaluation(h, r2.ok, ListValue(<<r1.value>> \o r2.value.tensors),
                            r1.calls \o r2.calls)
    IN  IF k > Len(items) THEN Evaluation(h, TRUE, ListValue(<<>>), <<>>)
        ELSE then(items[k],
                  IF source(items[k]) THEN Apply(h, cur, items[k].unit, <<>>)
                  ELSE Evaluation(h, TRUE, items[k], <<>>),
                  EvaluateSources(h, cur, items, k + 1))

\* items >> unit for a tuple or list of items
RrshiftList(h, cur, u, items) ==
    LET composed(inputs) == \E k \in 1..Len(inputs) : inputs[k].kind = "unit"
        after(calls, r2) == [r2 EXCEPT !.calls = calls \o r2.calls]
        into(calls, inputs) ==
            IF composed(inputs) THEN after(calls, ComposedListInit(h, cur, inputs, u))
            ELSE IF ~ArityAccepts(h[u], Len(inputs)) THEN Rejected(h, calls)
            ELSE after(calls, Apply(h, cur, u, [k \in 1..Len(inputs) |-> inputs[k].tensors[1]]))
        evaluated(r1) == IF ~r1.ok THEN Rejected(h, r1.calls) ELSE into(r1.calls, r1.value.tensors)
    IN  evaluated(EvaluateSources(h, cur, items, 1))

\* left >> right, as Python dispatches it
Rshift(h, cur, left, right) ==
    IF left.kind = "unit" THEN UnitRshift(h, cur, left.unit, right)
    ELSE IF right.kind # "unit" THEN Rejected(h, <<>>)
    ELSE IF left.kind = "list" THEN RrshiftList(h, cur, right.unit, left.tensors)
    ELSE Rrshift(h, cur, right.unit, left.tensors)

\* what a use of >> did: which use it was, its operands, the number of units
\* before it and its evaluation
Use(op, left, right, e) ==
    [ op |-> op, left |-> left, right |-> right, before |-> Len(units),
      ok |-> e.ok, value |-> e.value, calls |-> e.calls ]

NoUse ==
    [ op |-> "none", left |-> TensorValue(<<>>), right |-> TensorValue(<<>>), before |-> 0,
      ok |-> TRUE, value |-> TensorValue(<<>>), calls |-> <<>> ]

\* a >> b for two units
RshiftUnits(a, b) ==
    /\ result.op = "none"
    /\ LET e == Rshift(units, current, UnitValue(a), UnitValue(b))
       IN  /\ units' = e.h
           /\ result' = Use("a >> b", UnitValue(a), UnitValue(b), e)

\* (a >> b) >> c: the value of a >> b is the left operand
RshiftValue(c) ==
    /\ result.op = "a >> b" /\ result.ok
    /\ LET e == Rshift(units, current, result.value, UnitValue(c))
       IN  /\ units' = e.h
           /\ result' = Use("(a >> b) >> c", result.value, UnitValue(c), e)

\* a >> (b >> c): the value of b >> c is the right operand
RshiftIntoValue(a) ==
    /\ result.op = "a >> b" /\ result.ok
    /\ LET e == Rshift(units, current, UnitValue(a), result.value)
       IN  /\ units' = e.h
           /\ result' = Use("a >> (b >> c)", UnitValue(a), result.value, e)

\* xs >> u for tensors xs from outside and a unit u: a unit just built by
\* >>, or any unit while >> has not been used
RshiftTensors(xs, u) ==
    /\ \/ result.op = "none"
       \/ result.op # "xs >> u" /\ result.ok /\ result.value = UnitValue(u)
    /\ LET e == Rshift(units, current, TensorValue(xs), UnitValue(u))
       IN  /\ units' = e.h
           /\ result' = Use("xs >> u", TensorValue(xs), UnitValue(u), e)

\* the tuples of at most n items: units of the units h and tensors from
\* outside
ItemLists(h, n) ==
    UNION { { [k \in 1..len |->
                 IF f[k] = 0 THEN TensorValue(<< Tensor(0, k, <<>>) >>) ELSE UnitValue(f[k])] :
              f \in [1..len -> 0..Len(h)] } : len \in 0..n }

\* items >> u for a tuple of units and tensors and a unit u
RshiftList(items, u) ==
    /\ result.op = "none"
    /\ LET e == Rshift(units, current, ListValue(items), UnitValue(u))
       IN  /\ units' = e.h
           /\ result' = Use("items >> u", ListValue(items), UnitValue(u), e)

\* ------------------------------------------------------------------------
\* Unit.initialize, Unit.forward and Unit.__call__ with an output_key
\* ------------------------------------------------------------------------

\* The fields of a Unit object: its class, num_in, for a Composed unit its
\* first and second unit (0: none), initialized, outputs as a set of
\* entries, and how often initialize and the body of forward have run
UnitFields(cls, num_in, first, second) ==
    [ cls |-> cls, num_in |-> num_in, first |-> first, second |-> second,
      initialized |-> FALSE, outputs |-> {},
      initializations |-> 0, forwards |-> 0 ]

\* the units that are applied: an Activation, a Split into two tensors, a
\* Print and the Composed unit of the Activation and the Split (the
\* numbers of the first and the second unit of the Composed unit are their
\* positions here)
AppliedUnits ==
    << UnitFields("Activation", 1, 0, 0),
       UnitFields("Split", 1, 0, 0),
       UnitFields("Print", -1, 0, 0),
       UnitFields("Composed", 1, 1, 2) >>

\* the values of the argument output_key, and output_key + str(n)
OutputKeys == { None, "a", "loss" }
IndexedKey(output_key, n) ==
    IF output_key = "a" THEN << "a0", "a1" >>[n + 1] ELSE << "loss0", "loss1" >>[n + 1]

\* keys under which the user registers tensors besides
UserKeys == { "a", "a1" }

\* the tensors handed to a unit
CallInputs(n) == [i \in 1..n |-> GraphTensor("x", i)]

\* what forward or __call__ returns: one tensor, or a sequence of tensors
OneTensor(x) == [kind |-> "tensor", tensors |-> <<x>>]
TensorSequence(xs) == [kind |-> "sequence", tensors |-> xs]
NoOutput == [kind |-> "none", tensors |-> <<>>]

\* the body of initialize or of forward of the unit u has run
Event(ev, u) == [ev |-> ev, unit |-> u]

\* the keys of Unit.outputs
OutputKeysOf(o) == { e.key : e \in o.outputs }

\* the assertion of initialize, left out
InitializeAccepts_always(o) == TRUE

\* the assertion of Unit.initialize and of Composed.initialize
InitializeAccepts(o) == ~o.initialized

\* Unit.initialize(*xs), Composed.initialize(*xs)
UnitInitialize(o) ==
    IF ~InitializeAccepts(o) THEN [o |-> o, rejected |-> TRUE]
    ELSE [o |-> [o EXCEPT !.initialized = TRUE, !.initializations = @ + 1], rejected |-> FALSE]

\* What a call did: the units and the model afterwards, how it ended, what
\* it returned and the bodies it ran
Ran(h, r, status, output, events) ==
    [h |-> h, r |-> r, status |-> status, output |-> output, events |-> events]

\* lines 325-335: a sequence of one tensor is unwrapped
Unwrapped(output) ==
    IF output.kind = "sequence" /\ Len(output.tensors) = 1 THEN OneTensor(output.tensors[1])
    ELSE output

\* the tensor number idx that the current run of forward of o makes
Made(o, idx) == GraphTensor(o.cls, 2 * o.forwards + idx)

\* self.fn_forward(*inputs): Unit.forward asserts the number of inputs and
\* initializes the unit, then the body of the class runs; the body of a
\* Composed unit applies its first unit and then its second, without an
\* output_key
RECURSIVE fn_forward(_, _, _)
fn_forward(h, u, xs) ==
    IF ~ArityAccepts(h[u], Len(xs)) THEN Ran(h, None, "AssertionError", NoOutput, <<>>)
    ELSE LET i == IF ~h[u].initialized THEN UnitInitialize(h[u]) ELSE [o |-> h[u], rejected |-> FALSE]
             initialized == IF i.o.initializations > h[u].initializations
                            THEN << Event("initialize", u) >> ELSE <<>>
             o == [i.o EXCEPT !.forwards = @ + 1]
             h1 == [h EXCEPT ![u] = o]
             events == initialized \o << Event("forward", u) >>
         IN  IF i.rejected THEN Ran(h, None, "AssertionError", NoOutput, <<>>)
             ELSE IF o.cls = "Activation" THEN Ran(h1, None, "ok", OneTensor(Made(o, 0)), events)
             ELSE IF o.cls = "Split"
             THEN Ran(h1, None, "ok", TensorSequence(<< Made(o, 0), Made(o, 1) >>), events)
             ELSE IF o.cls = "Print"
             THEN IF Len(xs) = 0 THEN Ran(h1, None, "IndexError", NoOutput, events)
                  ELSE Ran(h1, None, "ok",
                           TensorSequence(<< Made(o, 0) >> \o SubSeq(xs, 2, Len(xs))), events)
             ELSE LET r1 == fn_forward(h1, o.first, xs)
                      r2 == fn_forward(r1.h, o.second, Unwrapped(r1.output).tensors)
                  IN  IF r1.status # "ok"
                      THEN Ran(r1.h, None, r1.status, NoOutput, events \o r1.events)
                      ELSE Ran(r2.h, None, r2.status, Unwrapped(r2.output),
                               events \o r1.events \o r2.events)

\* lines 338-339 from element n on: every tensor of the output is registered
\* under output_key + str(n), until a registration fails
RECURSIVE RegisterEach(_, _, _, _)
RegisterEach(r, output_key, tensors, n) ==
    IF n >= Len(tensors) THEN [r |-> r, rejected |-> FALSE]
    ELSE IF ~RegisterTensorAccepts(r, IndexedKey(output_key, n)) THEN [r |-> r, rejected |-> TRUE]
    ELSE RegisterEach(SetTensor(r, IndexedKey(output_key, n), tensors[n + 1]),
                      output_key, tensors, n + 1)

\* lines 326-339: the output is registered with the model r
RegisterOutput(r, output_key, output) ==
    IF output.kind = "tensor"
    THEN IF ~RegisterTensorAccepts(r, output_key) THEN [r |-> r, rejected |-> TRUE]
         ELSE [r |-> SetTensor(r, output_key, output.tensors[1]), rejected |-> FALSE]
    ELSE RegisterEach(r, output_key, output.tensors, 0)

\* the test of line 322, never finding the key
HasOutput_never(o, output_key) == FALSE

\* line 322: an output is stored under output_key
HasOutput(o, output_key) == output_key # None /\ output_key \in OutputKeysOf(o)

\* Unit.__call__(inputs=xs, output_key) on the unit u while cur is
\* Model.current and ms are the fields of the models
UnitCall(h, cur, ms, u, xs, output_key) ==
    IF HasOutput(h[u], output_key)
    THEN Ran(h, ms, "ok", (CHOOSE e \in h[u].outputs : e.key = output_key).output, <<>>)
    ELSE LET f == fn_forward(h, u, xs)
             output == Unwrapped(f.output)
             h1 == [f.h EXCEPT ![u].outputs =
                       { e \in @ : e.key # output_key } \cup { [key |-> output_key, output |-> output] }]
         IN  IF f.status # "ok" THEN Ran(f.h, ms, f.status, NoOutput, f.events)
             ELSE IF output_key = None THEN Ran(f.h, ms, "ok", output, f.events)
             ELSE IF cur = None THEN Ran(h1, ms, "AttributeError", NoOutput, f.events)
             ELSE LET g == RegisterOutput(ms[cur], output_key, output)
                  IN  Ran(h1, [ms EXCEPT ![cur] = g.r],
                          IF g.rejected THEN "AssertionError" ELSE "ok",
                          IF g.rejected THEN NoOutput ELSE output, f.events)

\* unit(inputs=xs, output_key=output_key)
CallUnit(u, xs, output_key) ==
    /\ Tick
    /\ LET e == UnitCall(objects, current, models, u, xs, output_key)
       IN  /\ objects' = e.h
           /\ models' = e.r
           /\ last' = [Outcome("unit", current, e.status, <<>>) EXCEPT
                          !.args = <<u, xs, output_key>>,
                          !.output = e.output,
                          !.events = e.events]
    /\ UNCHANGED <<current, block, graph>>

\* unit.initialize(*xs), called directly
Initialize(u) ==
    /\ Tick
    /\ LET i == UnitInitialize(objects[u])
       IN  /\ objects' = [objects EXCEPT ![u] = i.o]
           /\ last' = [Outcome("initialize", current, IF i.rejected THEN "rejected" ELSE "ok", <<>>)
                          EXCEPT !.args = <<u>>,
                                 !.events = IF i.rejected THEN <<>> ELSE << Event("initialize", u) >>]
    /\ UNCHANGED <<current, block, models, graph>>

\* ------------------------------------------------------------------------
\* Shapes
\* ------------------------------------------------------------------------

\* the static dimensions a tensor can have: unknown ({}) or a known size
Dimensions == { {}, {1}, {2}, {3} }

\* the static shapes of the tensors handed to make_least_common_shape
Shapes == [1..1 -> Dimensions] \cup [1..2 -> Dimensions]

\* A tensor with a static shape: its position among the tensors handed in
\* (0: made by a framework operation), its dimensions and, for the result
\* of tf.tile, the multiples it was tiled by
ShapedTensor(src, dims, multiples) == [src |-> src, dims |-> dims, multiples |-> multiples]

\* the lists of at most n tensors with the given shapes
TensorLists(shapes, n) ==
    UNION { { [i \in 1..k |-> ShapedTensor(i, f[i], <<>>)] : f \in [1..k -> shapes] } : k \in 0..n }

rank(x) == Len(x.dims)

\* shape(x): an unknown dimension reads as -1
shape(x) == [r \in 1..Len(x.dims) |-> IF x.dims[r] = {} THEN -1 ELSE CHOOSE d \in x.dims[r] : TRUE]

\* tf.tile: every known dimension is multiplied, an unknown one stays unknown
tile(x, multiples) ==
    ShapedTensor(x.src, [r \in 1..Len(x.dims) |-> { d * multiples[r] : d \in x.dims[r] }], multiples)

max(S) == CHOOSE m \in S : \A n \in S : n <= m

\* what make_least_common_shape did: it returned ys, or an assertion failed
Shaped(ok, ys) == [ok |-> ok, ys |-> ys]

\* make_least_common_shape tiling the ranks of ignore_ranks as well
make_least_common_shape_tiles_ignored(xs, ignore_ranks) ==
    IF ~(Len(xs) > 1) THEN Shaped(FALSE, <<>>)
    ELSE LET shapes == [i \in 1..Len(xs) |-> shape(xs[i])]
             common_rank == Len(shapes[1])
         IN  IF \E i \in 1..Len(xs) : Len(shapes[i]) # common_rank THEN Shaped(FALSE, <<>>)
             ELSE LET ref_shape == [r \in 1..common_rank |-> max({ shapes[i][r] : i \in 1..Len(xs) })]
                      multiples(i) == [r \in 1..common_rank |->
                                          IF shapes[i][r] = 1 THEN ref_shape[r] ELSE 1]
                      y(i) == IF \A r \in 1..common_rank : multiples(i)[r] = 1 THEN xs[i]
                              ELSE tile(xs[i], multiples(i))
                      accepted(i) == /\ rank(y(i)) = common_rank
                                     /\ \A r \in 1..common_rank :
                                           (r - 1) \notin ignore_ranks => shape(y(i))[r] = ref_shape[r]
                  IN  IF \E i \in 1..Len(xs) : ~accepted(i) THEN Shaped(FALSE, <<>>)
                      ELSE Shaped(TRUE, [i \in 1..Len(xs) |-> y(i)])

\* make_least_common_shape(xs, ignore_ranks); the ranks of the code count
\* from 0, the positions of a sequence from 1
make_least_common_shape(xs, ignore_ranks) ==
    IF ~(Len(xs) > 1) THEN Shaped(FALSE, <<>>)
    ELSE LET shapes == [i \in 1..Len(xs) |-> shape(xs[i])]
             common_rank == Len(shapes[1])
         IN  IF \E i \in 1..Len(xs) : Len(shapes[i]) # common_rank THEN Shaped(FALSE, <<>>)
             ELSE LET ref_shape == [r \in 1..common_rank |-> max({ shapes[i][r] : i \in 1..Len(xs) })]
                      multiples(i) == [r \in 1..common_rank |->
                                          IF shapes[i][r] = 1 /\ (r - 1) \notin ignore_ranks
                                          THEN ref_shape[r] ELSE 1]
                      y(i) == IF \A r \in 1..common_rank : multiples(i)[r] = 1 THEN xs[i]
                              ELSE tile(xs[i], multiples(i))
                      accepted(i) == /\ rank(y(i)) = common_rank
                                     /\ \A r \in 1..common_rank :
                                           (r - 1) \notin ignore_ranks => shape(y(i))[r] = ref_shape[r]
                  IN  IF \E i \in 1..Len(xs) : ~accepted(i) THEN Shaped(FALSE, <<>>)
                      ELSE Shaped(TRUE, [i \in 1..Len(xs) |-> y(i)])

NoArgs == [xs |-> <<>>, ignore_ranks |-> {}]

NoCall == [op |-> "none", ok |-> TRUE, ys |-> <<>>]

\* the call make_least_common_shape(xs=given.xs, ignore_ranks=given.ignore_ranks)
MakeLeastCommonShape ==
    /\ lcs.op = "none"
    /\ LET l == make_least_common_shape(given.xs, given.ignore_ranks)
       IN  lcs' = [op |-> "make_least_common_shape", ok |-> l.ok, ys |-> l.ys]
    /\ UNCHANGED <<given, mb>>

\* the static shapes of the tensors handed to make_broadcastable
BroadcastShapes ==
    UNION { [1..n -> { {1}, {2}, {3} }] : n \in {1, 2, 3} }
        \cup { << {} >>, << {}, {2} >>, << {2}, {} >> }

\* the key of line 43, len(s) - ones / (len(s) + 1) with the true division
\* of Python 3, as the fraction <<numerator, denominator>>
BroadcastKey(s) ==
    LET ones == Cardinality({ r \in 1..Len(s) : s[r] = 1 })
    IN  << Len(s) * (Len(s) + 1) - ones, Len(s) + 1 >>

KeyLess(k1, k2) == k1[1] * k2[2] < k2[1] * k1[2]

\* max(shapes, key=...): the first of the shapes of greatest key
ReferenceShape(shapes) ==
    LET key(i) == BroadcastKey(shapes[i])
        first == CHOOSE i \in 1..Len(shapes) :
                    /\ \A j \in 1..Len(shapes) : ~KeyLess(key(i), key(j))
                    /\ \A j \in 1..(i - 1) : KeyLess(key(j), key(i))
    IN  shapes[first]

\* tf.expand_dims(input=x, axis=axis)
expand_dims(x, axis) ==
    ShapedTensor(x.src, SubSeq(x.dims, 1, axis) \o << {1} >> \o SubSeq(x.dims, axis + 1, Len(x.dims)),
                 x.multiples)

\* the loop of lines 49-55 from position r on. zip reads the list s while
\* the body inserts into it (the lazy zip of Python 3), so the loop ends
\* with the shorter of the grown s and ref_shape; last_dims is {} for None,
\* axes are the positions expanded so far
RECURSIVE ExpandLoop(_, _, _, _, _, _)
ExpandLoop(x, s, ref_shape, r, last_dims, axes) ==
    IF r >= Len(s) \/ r >= Len(ref_shape) THEN [ok |-> TRUE, x |-> x, axes |-> axes]
    ELSE LET dims == s[r + 1]
             ref_dims == ref_shape[r + 1]
         IN  IF dims = ref_dims \/ dims = 1
             THEN ExpandLoop(x, s, ref_shape, r + 1, {dims}, axes)
             ELSE IF dims \in last_dims THEN [ok |-> FALSE, x |-> x, axes |-> axes]
             ELSE ExpandLoop(expand_dims(x, r),
                             SubSeq(s, 1, r) \o <<1>> \o SubSeq(s, r + 1, Len(s)),
                             ref_shape, r + 1, last_dims, Append(axes, r))

\* what make_broadcastable did: it returned ys, having chosen ref_shape and
\* expanded the axes axes[i] of the i-th tensor, or an assertion failed
Broadcast(ok, ys, ref_shape, axes) ==
    [ok |-> ok, ys |-> ys, ref_shape |-> ref_shape, axes |-> axes]

\* make_broadcastable without the assertion of line 56
make_broadcastable_unchecked(xs) ==
    IF ~(Len(xs) > 0) THEN Broadcast(FALSE, <<>>, <<>>, <<>>)
    ELSE LET shapes == [i \in 1..Len(xs) |-> shape(xs[i])]
             ref_shape == ReferenceShape(shapes)
             e(i) == IF Len(shapes[i]) < Len(ref_shape)
                     THEN ExpandLoop(xs[i], shapes[i], ref_shape, 0, {}, <<>>)
                     ELSE [ok |-> TRUE, x |-> xs[i], axes |-> <<>>]
         IN  IF \E i \in 1..Len(xs) : ~e(i).ok THEN Broadcast(FALSE, <<>>, ref_shape, <<>>)
             ELSE Broadcast(TRUE, [i \in 1..Len(xs) |-> e(i).x], ref_shape,
                            [i \in 1..Len(xs) |-> e(i).axes])

\* make_broadcastable(xs) for a list of tensors
make_broadcastable(xs) ==
    IF ~(Len(xs) > 0) THEN Broadcast(FALSE, <<>>, <<>>, <<>>)
    ELSE LET shapes == [i \in 1..Len(xs) |-> shape(xs[i])]
             ref_shape == ReferenceShape(shapes)
             e(i) == IF Len(shapes[i]) < Len(ref_shape)
                     THEN ExpandLoop(xs[i], shapes[i], ref_shape, 0, {}, <<>>)
                     ELSE [ok |-> TRUE, x |-> xs[i], axes |-> <<>>]
             accepted(i) ==
                 /\ e(i).ok
                 /\ rank(e(i).x) = Len(ref_shape)
                 /\ \A r \in 1..Len(ref_shape) :
                       shape(e(i).x)[r] = ref_shape[r] \/ shape(e(i).x)[r] = 1
         IN  IF \E i \in 1..Len(xs) : ~accepted(i) THEN Broadcast(FALSE, <<>>, ref_shape, <<>>)
             ELSE Broadcast(TRUE, [i \in 1..Len(xs) |-> e(i).x], ref_shape,
                            [i \in 1..Len(xs) |-> e(i).axes])

NoBroadcast == [op |-> "none", ok |-> TRUE, ys |-> <<>>, ref_shape |-> <<>>, axes |-> <<>>]

\* the call make_broadcastable(xs=given.xs)
MakeBroadcastable ==
    /\ mb.op = "none"
    /\ LET b == make_broadcastable(given.xs)
       IN  mb' = [ op |-> "make_broadcastable", ok |-> b.ok, ys |-> b.ys,
                   ref_shape |-> b.ref_shape, axes |-> b.axes ]
    /\ UNCHANGED <<given, lcs>>

\* ------------------------------------------------------------------------
\* Reduction
\* ------------------------------------------------------------------------

\* the names Reduction.valid accepts
ValidReductions ==
    { "cbp", "collapse", "concat", "conv", "conv2d", "last", "max", "mean", "min", "prod",
      "stack", "sum" }

valid(reduction) == reduction \in ValidReductions

\* the names a Reduction is constructed with: the valid ones and another
ReductionNames == ValidReductions \cup { "median" }

\* the values of the constructor argument axis: tuples of ranks (an int is
\* the tuple of it), and (start, Ellipsis, end) given as ellipsis = TRUE and
\* the tuple (start, end)
AxisArguments ==
    { [ellipsis |-> FALSE, axis |-> a] : a \in { <<-1>>, <<0>>, <<1>>, <<1, 0>>, <<1, 2>>, <<-1, 1>> } }
        \cup { [ellipsis |-> TRUE, axis |-> a] : a \in { <<0, -1>>, <<1, 1>> } }

\* the values of the constructor argument arg
ArgArguments == { -1, 0, 1 }

\* the static shapes of the tensors handed to a Reduction
ForwardShapes == { << {2} >>, << {1}, {2} >>, << {2}, {2} >>, << {2}, {1}, {2} >>, << {2}, {2}, {2} >> }

Range(s) == { s[i] : i \in 1..Len(s) }

RECURSIVE sorted(_)
sorted(s) ==
    IF s = <<>> THEN <<>>
    ELSE LET m == CHOOSE v \in Range(s) : \A w \in Range(s) : v <= w
             i == CHOOSE j \in 1..Len(s) : s[j] = m
         IN  <<m>> \o sorted(SubSeq(s, 1, i - 1) \o SubSeq(s, i + 1, Len(s)))

Distinct(s) == Cardinality(Range(s)) = Len(s)

\* the fields of a Reduction; multiple_inputs is {} for None
ReductionObject(reduction, ellipsis, axis, arg) ==
    [ reduction |-> reduction, ellipsis |-> ellipsis, axis |-> axis, arg |-> arg,
      multiple_inputs |-> {}, weights |-> FALSE, initialized |-> FALSE ]

\* whether Reduction(reduction, axis, arg) passes the assertions of
\* Unit.__init__ and Reduction.__init__ while cur is the current model
ReductionInitAccepts(cur, reduction, a) ==
    /\ cur # None
    /\ valid(reduction)
    /\ IF a.ellipsis THEN a.axis[1] # a.axis[2]
       ELSE Len(a.axis) > 0 /\ Distinct(a.axis)

\* the unit Reduction(reduction, axis, arg)
ReductionInit(reduction, a, arg) ==
    ReductionObject(reduction, a.ellipsis, IF a.ellipsis THEN a.axis ELSE sorted(a.axis), arg)

\* what forward did: the unit afterwards, how it ended ("returned" or the
\* exception raised) and the framework operation that made the value
\* returned, None when forward returned None
Forwarded(self, status, value) == [self |-> self, status |-> status, value |-> value]

\* tf.stack(values=xs, axis=axis)
stack(xs, axis) ==
    ShapedTensor(0, SubSeq(xs[1].dims, 1, axis) \o << {Len(xs)} >>
                       \o SubSeq(xs[1].dims, axis + 1, Len(xs[1].dims)), <<>>)

\* tf.unstack(value=x, axis=axis): the tensors, or <<>> where the framework
\* raises (no such axis, or an unknown dimension)
unstack(x, axis) ==
    IF axis >= rank(x) \/ x.dims[axis + 1] = {} THEN <<>>
    ELSE [ n \in 1..shape(x)[axis + 1] |->
             ShapedTensor(0, SubSeq(x.dims, 1, axis) \o SubSeq(x.dims, axis + 2, Len(x.dims)), <<>>) ]

RECURSIVE Flatten(_)
Flatten(ss) == IF ss = <<>> THEN <<>> ELSE Head(ss) \o Flatten(Tail(ss))

\* the loop of lines 1050-1051: xs unstacked along every axis, the last
\* axis first; <<>> where tf.unstack raises
RECURSIVE UnstackAll(_, _)
UnstackAll(xs, axis) ==
    IF axis = <<>> THEN xs
    ELSE LET a == axis[Len(axis)]
         IN  IF \E i \in 1..Len(xs) : unstack(xs[i], a) = <<>> THEN <<>>
             ELSE UnstackAll(Flatten([i \in 1..Len(xs) |-> unstack(xs[i], a)]),
                             SubSeq(axis, 1, Len(axis) - 1))

\* lines 1053-1119: the branches on self.reduction after the inputs were
\* prepared; x is {} while the local x is unbound
Dispatch(self, xs, x) ==
    LET multiple == TRUE \in self.multiple_inputs
        theX == CHOOSE t \in x : TRUE
    IN  IF self.reduction \in {"concat", "stack"}
        THEN LET arg == IF self.arg >= 0 THEN self.arg ELSE rank(xs[1]) + self.arg
                 s == [self EXCEPT !.arg = arg]
             IN  IF ~(0 <= arg /\ arg < rank(xs[1])) THEN Forwarded(s, "AssertionError", None)
                 ELSE IF ~make_least_common_shape(xs, {arg}).ok
                 THEN Forwarded(s, "AssertionError", None)
                 ELSE Forwarded(s, "returned",
                                IF self.reduction = "concat" THEN "tf.concat" ELSE "tf.stack")
        ELSE IF self.reduction = "collapse"
        THEN IF \A n \in 1..Len(self.axis) : self.axis[n] = self.axis[1] + n - 1
             THEN Forwarded(self, "returned", "tf.reshape")
             ELSE Forwarded(self, "AssertionError", None)
        ELSE IF self.reduction = "conv"
        THEN IF \/ self.axis = <<-1>>
                \/ /\ Len(self.axis) = rank(theX) - 2
                   /\ \A n \in 1..Len(self.axis) : self.axis[n] = n
             THEN Forwarded(self, "returned", "tf.squeeze")
             ELSE Forwarded(self, "AssertionError", None)
        ELSE IF self.reduction = "conv2d"
        THEN IF ~(self.axis = <<-1>> \/ self.axis = <<1, 2>>)
             THEN Forwarded(self, "AssertionError", None)
             ELSE IF rank(theX) < 3 THEN Forwarded(self, "IndexError", None)
             ELSE Forwarded(self, "returned", "tf.squeeze")
        ELSE IF self.reduction = "last"
        THEN IF multiple THEN Forwarded(self, "returned", "xs[-1]")
             ELSE IF \E n \in 1..Len(self.axis) : self.axis[n] > 4
             THEN Forwarded(self, "AssertionError", None)
             ELSE Forwarded(self, "returned", "x[-1]")
        ELSE IF self.reduction = "max" THEN Forwarded(self, "returned", "tf.reduce_max")
        ELSE IF self.reduction = "mean" THEN Forwarded(self, "returned", "tf.reduce_mean")
        ELSE IF self.reduction = "min" THEN Forwarded(self, "returned", "tf.reduce_min")
        ELSE IF self.reduction = "prod" THEN Forwarded(self, "returned", "tf.reduce_prod")
        ELSE IF self.reduction = "sum" THEN Forwarded(self, "returned", "tf.reduce_sum")
        ELSE Forwarded(self, "returned", None)

\* lines 997-1034: the unit reduces several inputs
ForwardMultiple(self, xs) ==
    IF self.ellipsis \/ self.axis # <<-1>> THEN Forwarded(self, "AssertionError", None)
    ELSE IF \E i \in 1..Len(xs) : rank(xs[i]) # rank(xs[1])
    THEN Forwarded(self, "AssertionError", None)
    ELSE IF self.reduction = "max" THEN Forwarded(self, "returned", "tf.maximum")
    ELSE IF self.reduction = "mean" THEN Forwarded(self, "returned", "tf.add / len(xs)")
    ELSE IF self.reduction = "min" THEN Forwarded(self, "returned", "tf.minimum")
    ELSE IF self.reduction = "prod" THEN Forwarded(self, "returned", "tf.multiply")
    ELSE IF self.reduction = "sum" THEN Forwarded(self, "returned", "tf.add")
    ELSE IF self.reduction \in {"collapse", "conv", "conv2d"}
    THEN LET l == make_least_common_shape(xs, {})
         IN  IF ~l.ok THEN Forwarded(self, "AssertionError", None)
             ELSE Dispatch(self, l.ys, { stack(l.ys, rank(xs[1])) })
    ELSE Dispatch(self, xs, {})

\* lines 1036-1051: the unit reduces the axes of one input
ForwardSingle(self, xs) ==
    LET x == xs[1]
        norm(a) == IF a >= 0 THEN a ELSE rank(x) + a
        start == norm(self.axis[1])
        end == norm(self.axis[2])
        negative == \E n \in 1..Len(self.axis) : self.axis[n] < 0
        axis == IF self.ellipsis THEN [n \in 1..(end + 1 - start) |-> start + n - 1]
                ELSE IF negative THEN sorted([n \in 1..Len(self.axis) |-> norm(self.axis[n])])
                ELSE self.axis
        s == [self EXCEPT !.axis = axis, !.ellipsis = FALSE]
    IN  IF ~self.ellipsis /\ negative /\ ~Distinct(axis) THEN Forwarded(s, "AssertionError", None)
        ELSE IF axis = <<>> THEN Forwarded(s, "IndexError", None)
        ELSE IF ~(axis[1] >= 0 /\ axis[Len(axis)] < rank(x)) THEN Forwarded(s, "AssertionError", None)
        ELSE IF self.reduction \in {"concat", "stack"}
        THEN LET ys == UnstackAll(xs, axis)
             IN  IF ys = <<>> THEN Forwarded(s, "ValueError", None)
                 ELSE Dispatch(s, ys, {x})
        ELSE Dispatch(s, xs, {x})

\* Reduction.forward(*xs) while cur is the current model
forward(cur, self, xs) ==
    LET first == ~self.initialized
        weights == first /\ self.reduction \in {"conv", "conv2d"}
        s1 == [self EXCEPT !.initialized = TRUE]
        s2 == [s1 EXCEPT !.weights = self.weights \/ weights]
        s3 == IF s2.multiple_inputs = {} THEN [s2 EXCEPT !.multiple_inputs = { Len(xs) > 1 }]
              ELSE s2
    IN  IF weights /\ cur = None THEN Forwarded(s1, "AssertionError", None)
        ELSE IF ~(Len(xs) > 0) THEN Forwarded(s2, "AssertionError", None)
        ELSE IF TRUE \in s3.multiple_inputs THEN ForwardMultiple(s3, xs)
        ELSE ForwardSingle(s3, xs)

NoForward == [op |-> "none", xs |-> <<>>, status |-> "none", value |-> None, before |-> {}]

\* the unit is applied to the tensors xs
Forward(xs) ==
    /\ nFwd < MaxForward
    /\ LET f == forward(current, red, xs)
       IN  /\ red' = f.self
           /\ fwd' = [ op |-> "forward", xs |-> xs, status |-> f.status, value |-> f.value,
                       before |-> red.multiple_inputs ]
    /\ nFwd' = nFwd + 1

\* ------------------------------------------------------------------------
\* The life cycle of the Model objects: two models, constructed and then
\* entered, finalized, invoked and left in any order
\* ------------------------------------------------------------------------

\* ------------------------------------------------------------------------
\* Variable
\* ------------------------------------------------------------------------

\* Activation.valid(activation)
ActivationValid(activation) == activation \in {"elu", "relu", "sigmoid", "softmax", "tanh"}

\* values of the argument init: the names the constructor accepts, and
\* 'selu' and 'uniform'
InitArguments ==
    { "constant", "zeros", "ones", "in", "out", "in-out", "stddev",
      "elu", "relu", "sigmoid", "softmax", "tanh", "selu", "uniform" }

\* values of the argument shape: None ({}), or a tuple
ShapeArguments == { {}, {<<>>}, {<<2>>}, {<<2, 3>>} }

\* values of the arguments dtype and value (None: {})
DtypeArguments == { "float", "int", "bool" }
ValueArguments == { {}, {1} }

\* Model.dtype(dtype, include_bytes=True): the bytes of the type
dtype_bytes(dtype) == 32 \div 8

\* the assertions of Variable.__init__ while cur is Model.current
VariableInitAccepts(cur, shp, dtype, init) ==
    /\ cur # None
    /\ \A sh \in shp : Len(sh) > 0 /\ \A n \in 1..Len(sh) : sh[n] > 0
    /\ init \in {"constant", "zeros", "ones", "in", "out", "in-out", "stddev"}
          \/ ActivationValid(init)
    /\ init \in {"constant", "zeros", "ones"} \/ dtype = "float"

\* no Variable is constructed
NoVariable == [state |-> "none"]

\* the arguments a Variable is to be constructed with
VariableArgs(shp, dtype, init, value) ==
    [ state |-> "args", shape |-> shp, dtype |-> dtype, init |-> init, value |-> value,
      initialized |-> FALSE, status |-> "none", initializer |-> {} ]

\* an initializer of the framework
Initializer(fn, factor, mode) == [fn |-> fn, factor |-> factor, mode |-> mode]

\* what the chain of lines 500-519 did: the initializer ({}: none), or the
\* assertion that failed
Selected(status, initializer) == [status |-> status, initializer |-> initializer]

\* lines 500-519 of Variable.forward
SelectInitializer(self) ==
    LET two == \A sh \in self.shape : Len(sh) >= 2
    IN  IF self.shape = {} THEN Selected("AssertionError:500", {})
        ELSE IF self.init = "zeros" THEN Selected("ok", {Initializer("zeros", 0, None)})
        ELSE IF self.init = "ones" THEN Selected("ok", {Initializer("ones", 0, None)})
        ELSE IF self.init = "stddev"
        THEN IF self.value = {} THEN Selected("AssertionError:506", {})
             ELSE Selected("ok", {Initializer("random_normal", 0, None)})
        ELSE IF self.init = "selu" THEN Selected("ok", {Initializer("variance_scaling", 1, "FAN_OUT")})
        ELSE IF self.init = "out" THEN Selected("ok", {Initializer("variance_scaling", 2, "FAN_OUT")})
        ELSE IF self.init = "in" \/ self.init \in {"elu", "relu"}
        THEN IF ~two THEN Selected("AssertionError:513", {})
             ELSE Selected("ok", {Initializer("variance_scaling", 2, "FAN_IN")})
        ELSE IF self.init = "in-out" \/ ActivationValid(self.init)
        THEN IF ~two THEN Selected("AssertionError:516", {})
             ELSE Selected("ok", {Initializer("variance_scaling", 1, "FAN_AVG")})
        ELSE Selected("AssertionError:519", {})

\* product(self.shape)
RECURSIVE product(_)
product(xs) == IF xs = <<>> THEN 1 ELSE Head(xs) * product(Tail(xs))

\* Variable(name='w', shape, dtype, init, value)
VariableNew ==
    /\ var.state = "args"
    /\ var' = [var EXCEPT !.state = IF VariableInitAccepts(current, var.shape, var.dtype, var.init)
                                    THEN "object" ELSE "rejected"]
    /\ UNCHANGED lifecycleVars

\* the Variable is applied: Unit.forward initializes it, the initializer
\* is selected, the variable is made and registered with Model.current
VariableForward ==
    /\ var.state \in {"object", "forwarded"}
    /\ Tick
    /\ LET i == SelectInitializer(var)
           sh == CHOOSE sh \in var.shape : TRUE
           e == RegisterVariable(models[current], "w", "v1", product(sh),
                                 product(sh) * dtype_bytes(var.dtype))
       IN  /\ var' = [var EXCEPT !.state = "forwarded", !.initialized = TRUE,
                                 !.status = IF i.status # "ok" THEN i.status
                                            ELSE IF current = None THEN "AttributeError"
                                            ELSE "ok",
                                 !.initializer = i.initializer]
           /\ models' = IF i.status = "ok" /\ current # None
                        THEN [models EXCEPT ![current] = e.r] ELSE models
           /\ last' = [Outcome("variable", current, i.status, <<>>) EXCEPT !.args = <<var.init>>]
    /\ UNCHANGED <<current, block, graph>>

\* no Variable, ResidualNet or Fractal is constructed
NoBuild == var = NoVariable /\ net = NoVariable /\ frac = NoVariable

\* ------------------------------------------------------------------------
\* ResidualNet: the constructor and initialize, which fills self.layers
\* ------------------------------------------------------------------------

\* the longest sizes and depths lists drawn
MaxStages == 3

\* the largest depth of a stage drawn
MaxDepth == 3

\* Pooling.valid
PoolingValid(pool) == pool \in {"none", "average", "avg", "max", "maximum"}

\* the pool arguments drawn: two valid names and one that is not
PoolArguments == {"max", "average", "median"}

\* the sizes lists drawn
SizesArguments == UNION { [1..n -> {4, 8}] : n \in 0..MaxStages }

\* the depths lists drawn; 0 is a depth that is not positive
DepthsArguments == UNION { [1..n -> 0..MaxDepth] : n \in 0..MaxStages }

\* the arguments a ResidualNet is to be constructed with
ResidualNetArgs(sizes, depths, pool) ==
    [ state |-> "args", sizes |-> sizes, depths |-> depths, pool |-> pool,
      layers |-> <<>>, status |-> "none" ]

\* a unit appended to self.layers: its class, its size (0: it has none) and
\* the keyword arguments it was constructed with, or for a Residual the
\* unit it builds its branch from
LayerObject(kind, size, kwargs) == [kind |-> kind, size |-> size, kwargs |-> kwargs]

\* the local name layer of initialize, bound to the lambda of line 1958
PreActivation == {<<"norm_act_drop_before", "True">>}

\* what initialize has done so far: the list, the local name layer ({}:
\* unbound) and the error raised, if any
Built(layers, layer, status) == [layers |-> layers, layer |-> layer, status |-> status]

\* zip(self.sizes, self.depths): the number of pairs
zip(sizes, depths) == IF Len(sizes) < Len(depths) THEN Len(sizes) ELSE Len(depths)

\* the body of the inner loop, lines 1954-1960, for stage m (from 0) and n
InnerBody(b, m, n, size) ==
    IF b.status # "ok" THEN b
    ELSE IF m = 0
    THEN IF n = 0
         THEN Built(Append(b.layers,
                           LayerObject("Convolution", size,
                                       {<<"normalization", "False">>, <<"activation", None>>})),
                    PreActivation, "ok")
         ELSE b
    ELSE IF b.layer = {} THEN Built(b.layers, b.layer, "UnboundLocalError")
    ELSE Built(Append(b.layers, LayerObject("Residual", size, b.layer)), b.layer, "ok")

\* for n in range(depth), from n on
RECURSIVE InnerLoop(_, _, _, _, _)
InnerLoop(b, m, n, size, depth) ==
    IF n >= depth THEN b
    ELSE InnerLoop(InnerBody(b, m, n, size), m, n + 1, size, depth)

\* lines 1950-1952 of the outer loop: a Pooling before every stage but the
\* first
WithPooling(b, m, pool) ==
    IF m > 0 /\ b.status = "ok"
    THEN Built(Append(b.layers, LayerObject("Pooling", 0, {<<"pool", pool>>})), b.layer, "ok")
    ELSE b

\* for m, (size, depth) in enumerate(zip(self.sizes, self.depths)), from m on
RECURSIVE OuterLoop(_, _, _)
OuterLoop(self, b, m) ==
    IF m >= zip(self.sizes, self.depths) THEN b
    ELSE OuterLoop(self,
                   InnerLoop(WithPooling(b, m, self.pool), m, 0,
                             self.sizes[m + 1], self.depths[m + 1]),
                   m + 1)

\* ResidualNet.initialize, lines 1947-1962
ResidualNetLayers(self) ==
    LET b == OuterLoop(self, Built(<<>>, {}, "ok"), 0)
    IN  IF b.status # "ok" THEN b
        ELSE Built(b.layers
                     \o << LayerObject("Normalization", 0, {<<"normalization", "instance">>}),
                           LayerObject("Activation", 0, {<<"activation", "relu">>}) >>,
                   b.layer, "ok")

\* ResidualNet(sizes, depths, pool=pool)
ResidualNetNew ==
    /\ net.state = "args"
    /\ net' = [net EXCEPT !.state = IF current # None /\ PoolingValid(net.pool)
                                    THEN "object" ELSE "rejected"]
    /\ UNCHANGED lifecycleVars

\* the ResidualNet is applied for the first time: Unit.__call__ runs
\* initialize
ResidualNetInitialize ==
    /\ net.state = "object"
    /\ LET b == ResidualNetLayers(net)
       IN  net' = [net EXCEPT !.state = "initialized", !.layers = b.layers,
                              !.status = b.status]
    /\ UNCHANGED lifecycleVars

\* ------------------------------------------------------------------------
\* Fractal: the constructor and the first application, which initializes
\* the Fractal and applies its two sub-Fractals, its unit and its join
\* ------------------------------------------------------------------------

\* the largest depth of a Fractal drawn
MaxFractalDepth == 3

\* the depth arguments drawn; -1 is a depth the constructor refuses
FractalDepths == (0 - 1)..MaxFractalDepth

\* the size arguments drawn; 0 asks for a squeezed layer
FractalSizes == {0, 4}

\* the reduction arguments drawn: the default, two other valid names and
\* one that Reduction.valid refuses
FractalReductions == {"mean", "sum", "concat", "median"}

\* the assertions of Layer.__init__ and Fractal.__init__
FractalInitAccepts(cur, size, depth) ==
    /\ cur # None
    /\ size >= 0
    /\ depth >= 0
    /\ size # 0 \/ depth = 0

\* the arguments a Fractal is to be constructed with
FractalArgs(size, depth, reduction) ==
    [ state |-> "args", size |-> size, depth |-> depth, reduction |-> reduction,
      stack |-> <<>>, units |-> <<>>, joins |-> <<>>, subs |-> <<>>, status |-> "none" ]

\* a Fractal whose application is under way: its depth, its reduction
\* argument and the next thing its application does
Frame(depth, reduction, pc) == [depth |-> depth, reduction |-> reduction, pc |-> pc]

\* a Reduction made by a Fractal of this depth
Join(depth, reduction) == [depth |-> depth, reduction |-> reduction]

\* a sub-Fractal made by a Fractal of depth parent
Sub(parent, depth, reduction) == [parent |-> parent, depth |-> depth, reduction |-> reduction]

\* the default of the reduction argument of Fractal.__init__
DefaultReduction == "mean"

\* all but the last of a list
Front(xs) == SubSeq(xs, 1, Len(xs) - 1)

\* the list with its last element replaced
WithLast(xs, x) == Append(Front(xs), x)

\* Fractal(size=size, depth=depth, reduction=reduction)
FractalNew ==
    /\ frac.state = "args"
    /\ frac' = IF FractalInitAccepts(current, frac.size, frac.depth)
               THEN [frac EXCEPT !.state = "object",
                                 !.size = IF frac.size = 0 THEN 1 ELSE frac.size]
               ELSE [frac EXCEPT !.state = "rejected", !.status = "AssertionError"]
    /\ UNCHANGED lifecycleVars

\* the Fractal made by FractalNew is applied to a tensor
FractalApply ==
    /\ frac.state = "object"
    /\ frac' = [frac EXCEPT !.state = "applying",
                            !.stack = <<Frame(frac.depth, frac.reduction, "call")>>]
    /\ UNCHANGED lifecycleVars

\* Unit.__call__ of the Fractal on top: its first application runs
\* initialize, lines 1975-1981
FractalInitialize ==
    /\ frac.state = "applying"
    /\ LET self == frac.stack[Len(frac.stack)]
           d == self.depth
       IN  /\ self.pc = "call"
           /\ frac' =
                IF d > 0 /\ ~valid(self.reduction)
                THEN [frac EXCEPT !.state = "failed", !.status = "AssertionError:969",
                                  !.subs = @ \o << Sub(d, d - 1, DefaultReduction),
                                                   Sub(d, d - 1, DefaultReduction) >>]
                ELSE IF d > 0
                THEN [frac EXCEPT !.subs = @ \o << Sub(d, d - 1, DefaultReduction),
                                                   Sub(d, d - 1, DefaultReduction) >>,
                                  !.joins = Append(@, Join(d, self.reduction)),
                                  !.units = Append(@, d),
                                  !.stack = WithLast(@, Frame(d, self.reduction, "fx"))]
                ELSE [frac EXCEPT !.units = Append(@, d),
                                  !.stack = WithLast(@, Frame(d, self.reduction, "unit"))]
    /\ UNCHANGED lifecycleVars

\* x >> self.fx and then >> self.ffx, line 1987: the sub-Fractal is
\* applied, and the Fractal on top goes on when it has returned
FractalSub ==
    /\ frac.state = "applying"
    /\ LET self == frac.stack[Len(frac.stack)]
       IN  /\ self.pc \in {"fx", "ffx"}
           /\ frac' = [frac EXCEPT !.stack =
                         Append(WithLast(@, Frame(self.depth, self.reduction,
                                                  IF self.pc = "fx" THEN "ffx" ELSE "unit")),
                                Frame(self.depth - 1, DefaultReduction, "call"))]
    /\ UNCHANGED lifecycleVars

\* x >> self.unit, lines 1986 and 1988: a Fractal of depth 0 returns
FractalUnit ==
    /\ frac.state = "applying"
    /\ LET self == frac.stack[Len(frac.stack)]
       IN  /\ self.pc = "unit"
           /\ frac' =
                IF self.depth > 0
                THEN [frac EXCEPT !.stack = WithLast(@, Frame(self.depth, self.reduction, "join"))]
                ELSE [frac EXCEPT !.stack = Front(@),
                                  !.state = IF Len(frac.stack) = 1 THEN "applied" ELSE @,
                                  !.status = IF Len(frac.stack) = 1 THEN "ok" ELSE @]
    /\ UNCHANGED lifecycleVars

\* (x, y) >> self.reduction, line 1989: the Fractal on top returns
FractalJoin ==
    /\ frac.state = "applying"
    /\ LET self == frac.stack[Len(frac.stack)]
       IN  /\ self.pc = "join"
           /\ frac' = [frac EXCEPT !.stack = Front(@),
                                   !.state = IF Len(frac.stack) = 1 THEN "applied" ELSE @,
                                   !.status = IF Len(frac.stack) = 1 THEN "ok" ELSE @]
    /\ UNCHANGED lifecycleVars

\* no units are used
NoUnits == units = <<>> /\ result = NoUse /\ objects = <<>>

\* make_least_common_shape is not called
NoShapes == given = NoArgs /\ lcs = NoCall /\ mb = NoBroadcast

\* no Reduction is applied
NoReduction ==
    /\ red = ReductionObject(None, FALSE, <<>>, 0)
    /\ fwd = NoForward
    /\ nFwd = 0

Init ==
    /\ current = None
    /\ block = None
    /\ models \in [Models -> { NewModel(d, None) : d \in ModelDirectories }]
    /\ graph = 0
    /\ last = Outcome("init", None, "ok", <<>>)
    /\ nOps = 0
    /\ NoUnits
    /\ NoShapes
    /\ NoReduction
    /\ NoBuild

Next ==
    /\ \/ \E m \in Models, reset \in ResetOutcomes : Enter(m, reset)
       \/ \E m \in Models, restore \in BOOLEAN, grad \in GradOutcomes, fail \in Failures :
             Finalize(m, restore, grad, fail)
       \/ \E m \in Models, optimize \in BOOLEAN :
             Call(m, [kind |-> "none", names |-> {}], [kind |-> "none", names |-> {}],
                  optimize, FALSE, {})
       \/ \E m \in Models, grad \in GradOutcomes, fail \in Failures : ExitNormal(m, grad, fail)
       \/ \E m \in Models, fail \in Failures : ExitRaise(m, fail)
    /\ UNCHANGED <<unitVars, shapeVars, reductionVars, buildVars>>

Spec == Init /\ [][Next]_vars

\* ------------------------------------------------------------------------
\* Invocation: one model, with every configuration, registers tensors and
\* placeholders and is invoked with every shape of argument
\* ------------------------------------------------------------------------

InitCall ==
    /\ current = None
    /\ block = None
    /\ \E d \in ModelDirectories, s \in SummaryDirectories :
          models = [m \in Models |-> IF m = "m1" THEN NewModel(d, s) ELSE NewModel(None, None)]
    /\ graph = 0
    /\ last = Outcome("init", None, "ok", <<>>)
    /\ nOps = 0
    /\ NoUnits
    /\ NoShapes
    /\ NoReduction
    /\ NoBuild

NextCall ==
    /\ \/ \E reset \in ResetOutcomes : Enter("m1", reset)
       \/ \E key \in TensorKeys : register_tensor("m1", key, GraphTensor("t", 1))
       \/ \E key \in PlaceholderNames, placeholder \in PlaceholderArguments :
             register_placeholder("m1", key, placeholder)
       \/ \E grad \in {"ok", "no_variables"} : Finalize("m1", FALSE, grad, "none")
       \/ \E query \in Queries, data \in Datas, optimize \in BOOLEAN,
             summarize \in BOOLEAN, dropout \in Dropouts :
             Call("m1", query, data, optimize, summarize, dropout)
       \/ ExitNormal("m1", "ok", "none")
    /\ UNCHANGED <<unitVars, shapeVars, reductionVars, buildVars>>

SpecCall == InitCall /\ [][NextCall]_vars

\* ------------------------------------------------------------------------
\* Outputs: units are initialized and applied with and without an
\* output_key while a model is entered and left and tensors are
\* registered with it
\* ------------------------------------------------------------------------

InitOutputs ==
    /\ current = None
    /\ block = None
    /\ models = [m \in Models |-> NewModel(None, None)]
    /\ graph = 0
    /\ last = Outcome("init", None, "ok", <<>>)
    /\ nOps = 0
    /\ units = <<>>
    /\ result = NoUse
    /\ objects = AppliedUnits
    /\ NoShapes
    /\ NoReduction
    /\ NoBuild

NextOutputs ==
    /\ nOps < MaxCalls
    /\ \/ \E reset \in ResetOutcomes : Enter("m1", reset) /\ UNCHANGED objects
       \/ ExitRaise("m1", "none") /\ UNCHANGED objects
       \/ \E key \in UserKeys : register_tensor("m1", key, GraphTensor("t", 1)) /\ UNCHANGED objects
       \/ \E u \in 1..Len(objects), n \in 0..MaxInputs, output_key \in OutputKeys :
             CallUnit(u, CallInputs(n), output_key)
       \/ \E u \in 1..Len(objects) : Initialize(u)
    /\ UNCHANGED <<units, result, shapeVars, reductionVars, buildVars>>

SpecOutputs == InitOutputs /\ [][NextOutputs]_vars

\* ------------------------------------------------------------------------
\* Variable: a Variable is constructed with every combination of
\* arguments in a model that is current, and applied
\* ------------------------------------------------------------------------

InitVariable ==
    /\ current = "m1"
    /\ block = "m1"
    /\ models = [m \in Models |-> NewModel(None, None)]
    /\ graph = 0
    /\ last = Outcome("init", None, "ok", <<>>)
    /\ nOps = 0
    /\ NoUnits
    /\ NoShapes
    /\ NoReduction
    /\ \E shp \in ShapeArguments, dtype \in DtypeArguments, init \in InitArguments,
          value \in ValueArguments : var = VariableArgs(shp, dtype, init, value)
    /\ net = NoVariable
    /\ frac = NoVariable

NextVariable ==
    /\ \/ VariableNew
       \/ VariableForward
    /\ UNCHANGED <<unitVars, shapeVars, reductionVars, net, frac>>

SpecVariable == InitVariable /\ [][NextVariable]_vars

\* C21: a Variable whose init was accepted by the constructor and that is
\* applied with its shape set, with at least 2 dimensions for the fan-in
\* and fan-average modes, and with a value for 'stddev', has selected an
\* initializer
C21_AcceptedInitSelectsInitializer ==
    ( /\ var.state = "forwarded"
      /\ var.shape # {}
      /\ var.init \in {"in", "in-out"} \cup {"elu", "relu", "sigmoid", "softmax", "tanh"}
            => \A sh \in var.shape : Len(sh) >= 2
      /\ var.init = "stddev" => var.value # {} )
    => var.status = "ok" /\ var.initializer # {}

\* ------------------------------------------------------------------------
\* ResidualNet: one net is constructed and applied inside a model
\* ------------------------------------------------------------------------

InitResidualNet ==
    /\ current = "m1"
    /\ block = "m1"
    /\ models = [m \in Models |-> NewModel(None, None)]
    /\ graph = 0
    /\ last = Outcome("init", None, "ok", <<>>)
    /\ nOps = 0
    /\ NoUnits
    /\ NoShapes
    /\ NoReduction
    /\ var = NoVariable
    /\ \E sizes \in SizesArguments, depths \in DepthsArguments, pool \in PoolArguments :
          net = ResidualNetArgs(sizes, depths, pool)
    /\ frac = NoVariable

NextResidualNet ==
    /\ \/ ResidualNetNew
       \/ ResidualNetInitialize
    /\ UNCHANGED <<unitVars, shapeVars, reductionVars, var, frac>>

SpecResidualNet == InitResidualNet /\ [][NextResidualNet]_vars

\* the units of self.layers that hold weights
WeightUnits(layers) == { i \in 1..Len(layers) : layers[i].kind \in {"Convolution", "Residual"} }

\* the stage (from 1) a position of self.layers belongs to: one more than
\* the number of Pooling units before it
StageOf(layers, i) ==
    1 + Cardinality({ j \in 1..(i - 1) : layers[j].kind = "Pooling" })

\* C26: after initialize of a ResidualNet with positive depths, stage m of
\* the layer list has exactly depths[m] weight units of size sizes[m], a
\* plain layer first and Residual units after it, one Pooling precedes
\* every stage after the first, and the list ends with one Normalization
\* and one Activation
C26_LayerListFollowsDepths ==
    LET stages == zip(net.sizes, net.depths)
        layers == net.layers
    IN  ( /\ net.state = "initialized"
          /\ \A m \in 1..stages : net.depths[m] > 0 )
        => /\ net.status = "ok"
           /\ \A m \in 1..stages :
                LET ws == { i \in WeightUnits(layers) : StageOf(layers, i) = m }
                IN  /\ Cardinality(ws) = net.depths[m]
                    /\ \A i \in ws :
                         /\ layers[i].size = net.sizes[m]
                         /\ layers[i].kind = "Convolution"
                              <=> (m = 1 /\ \A j \in ws : i <= j)
           /\ Cardinality({ i \in 1..Len(layers) : layers[i].kind = "Pooling" })
                = (IF stages > 0 THEN stages - 1 ELSE 0)
           /\ Len(layers) >= 2
           /\ layers[Len(layers) - 1].kind = "Normalization"
           /\ layers[Len(layers)].kind = "Activation"
           /\ \A i \in 1..(Len(layers) - 2) :
                layers[i].kind \notin {"Normalization", "Activation"}

\* ------------------------------------------------------------------------
\* Fractal: one Fractal is constructed and applied inside a model
\* ------------------------------------------------------------------------

InitFractal ==
    /\ current = "m1"
    /\ block = "m1"
    /\ models = [m \in Models |-> NewModel(None, None)]
    /\ graph = 0
    /\ last = Outcome("init", None, "ok", <<>>)
    /\ nOps = 0
    /\ NoUnits
    /\ NoShapes
    /\ NoReduction
    /\ var = NoVariable
    /\ net = NoVariable
    /\ \E size \in FractalSizes, depth \in FractalDepths, reduction \in FractalReductions :
          frac = FractalArgs(size, depth, reduction)

FractalStep ==
    \/ FractalNew
    \/ FractalApply
    \/ FractalInitialize
    \/ FractalSub
    \/ FractalUnit
    \/ FractalJoin

NextFractal ==
    /\ FractalStep
    /\ UNCHANGED <<unitVars, shapeVars, reductionVars, var, net>>

SpecFractal == InitFractal /\ [][NextFractal]_vars

\* the application is not held up: each step of it is taken when it can be
FairSpecFractal == SpecFractal /\ WF_vars(NextFractal)

\* the first application of a Fractal ends: it returns, or initialize has
\* raised
FractalTerminates == frac.state = "object" ~> frac.state \in {"applied", "failed"}

\* no Fractal is applied below depth 0, and no more Fractals are being
\* applied at once than the depth of the first one allows
FractalStackBounded ==
    frac.state = "applying"
    => /\ Len(frac.stack) <= frac.depth + 1
       /\ \A i \in 1..Len(frac.stack) : frac.stack[i].depth = frac.depth - (i - 1)

\* C27: when the first application of a Fractal of depth d has returned,
\* 2^(d+1) - 1 base units and 2^d - 1 joins were created, every
\* sub-Fractal has the depth of its parent less one and none is below
\* depth 0, and every join uses the reduction given to the first Fractal
C27_FractalBuild ==
    frac.state = "applied"
    => /\ Len(frac.units) = 2 ^ (frac.depth + 1) - 1
       /\ Len(frac.joins) = 2 ^ frac.depth - 1
       /\ \A i \in 1..Len(frac.subs) :
            frac.subs[i].depth = frac.subs[i].parent - 1 /\ frac.subs[i].depth >= 0
       /\ \A i \in 1..Len(frac.joins) : frac.joins[i].reduction = frac.reduction

\* ------------------------------------------------------------------------
\* Registration: one model is entered, finalized and left while tensors
\* and variables are registered with it
\* ------------------------------------------------------------------------

InitRegister ==
    /\ current = None
    /\ block = None
    /\ models = [m \in Models |-> NewModel(None, None)]
    /\ graph = 0
    /\ last = Outcome("init", None, "ok", <<>>)
    /\ nOps = 0
    /\ NoUnits
    /\ NoShapes
    /\ NoReduction
    /\ NoBuild

NextRegister ==
    /\ \/ \E reset \in ResetOutcomes : Enter("m1", reset)
       \/ \E key \in TensorKeys, tensor \in TensorArguments : register_tensor("m1", key, tensor)
       \/ \E key \in VariableKeys, variable \in VariableArguments, size \in SizeArguments :
             register_variable("m1", key, variable, size)
       \/ \E grad \in GradOutcomes : Finalize("m1", FALSE, grad, "none")
       \/ \E grad \in GradOutcomes : ExitNormal("m1", grad, "none")
       \/ ExitRaise("m1", "none")
    /\ UNCHANGED <<unitVars, shapeVars, reductionVars, buildVars>>

SpecRegister == InitRegister /\ [][NextRegister]_vars

\* ------------------------------------------------------------------------
\* Composition: three units of any classes, created in a model that is
\* still current or has been left, are chained with >> and applied
\* ------------------------------------------------------------------------

InitUnits ==
    /\ current \in {None, "m1"}
    /\ block = current
    /\ models = [m \in Models |-> NewModel(None, None)]
    /\ graph = 0
    /\ last = Outcome("init", None, "ok", <<>>)
    /\ nOps = 0
    /\ \E i, j, k \in 1..Len(UnitClasses) :
          /\ i <= j /\ j <= k
          /\ units = << UnitClasses[i], UnitClasses[j], UnitClasses[k] >>
    /\ result = NoUse
    /\ objects = <<>>
    /\ NoShapes
    /\ NoReduction
    /\ NoBuild

NextUnits ==
    /\ \/ \E a, b \in 1..Len(units) : RshiftUnits(a, b)
       \/ \E c \in 1..Len(units) : RshiftValue(c)
       \/ \E a \in 1..Len(units) : RshiftIntoValue(a)
       \/ \E n \in 0..MaxInputs, u \in 1..Len(units) : RshiftTensors(Inputs(n), u)
       \/ /\ result.op = "none"
          /\ \E items \in ItemLists(units, MaxInputs), u \in 1..Len(units) : RshiftList(items, u)
    /\ UNCHANGED <<lifecycleVars, objects, shapeVars, reductionVars, buildVars>>

SpecUnits == InitUnits /\ [][NextUnits]_vars

\* ------------------------------------------------------------------------
\* Shapes: make_least_common_shape is called once with every list of
\* tensors and every ignore_ranks
\* ------------------------------------------------------------------------

InitShapes ==
    /\ current = None
    /\ block = None
    /\ models = [m \in Models |-> NewModel(None, None)]
    /\ graph = 0
    /\ last = Outcome("init", None, "ok", <<>>)
    /\ nOps = 0
    /\ NoUnits
    /\ given \in [ xs : TensorLists(Shapes, MaxTensors), ignore_ranks : SUBSET {0, 1} ]
    /\ lcs = NoCall
    /\ mb = NoBroadcast
    /\ NoReduction
    /\ NoBuild

NextShapes ==
    /\ MakeLeastCommonShape
    /\ UNCHANGED <<lifecycleVars, unitVars, reductionVars, buildVars>>

SpecShapes == InitShapes /\ [][NextShapes]_vars

\* ------------------------------------------------------------------------
\* Broadcasting: make_broadcastable is called once with every list of
\* tensors
\* ------------------------------------------------------------------------

InitBroadcast ==
    /\ current = None
    /\ block = None
    /\ models = [m \in Models |-> NewModel(None, None)]
    /\ graph = 0
    /\ last = Outcome("init", None, "ok", <<>>)
    /\ nOps = 0
    /\ NoUnits
    /\ given \in [ xs : TensorLists(BroadcastShapes, MaxInputs), ignore_ranks : { {} } ]
    /\ lcs = NoCall
    /\ mb = NoBroadcast
    /\ NoReduction
    /\ NoBuild

NextBroadcast ==
    /\ MakeBroadcastable
    /\ UNCHANGED <<lifecycleVars, unitVars, reductionVars, buildVars>>

SpecBroadcast == InitBroadcast /\ [][NextBroadcast]_vars

\* ------------------------------------------------------------------------
\* Reduction: a Reduction unit of every name, axis and arg, constructed in
\* the current model, is applied to one tensor or several
\* ------------------------------------------------------------------------

InitReduction ==
    /\ current = "m1"
    /\ block = "m1"
    /\ models = [m \in Models |-> NewModel(None, None)]
    /\ graph = 0
    /\ last = Outcome("init", None, "ok", <<>>)
    /\ nOps = 0
    /\ NoUnits
    /\ NoShapes
    /\ \E reduction \in ReductionNames, a \in AxisArguments, arg \in ArgArguments :
          /\ ReductionInitAccepts(current, reduction, a)
          /\ red = ReductionInit(reduction, a, arg)
    /\ fwd = NoForward
    /\ nFwd = 0
    /\ NoBuild

NextReduction ==
    /\ \E xs \in TensorLists(ForwardShapes, MaxInputs) : Forward(xs)
    /\ UNCHANGED <<lifecycleVars, unitVars, shapeVars, buildVars>>

SpecReduction == InitReduction /\ [][NextReduction]_vars

\* ========================================================================
\* Properties
\* ========================================================================

\* s is a prefix of t
IsPrefix(s, t) == Len(s) <= Len(t) /\ SubSeq(t, 1, Len(s)) = s

\* the sequence s without its elements equal to x
RECURSIVE Without(_, _)
Without(s, x) ==
    IF s = <<>> THEN <<>>
    ELSE IF Head(s) = x THEN Without(Tail(s), x)
    ELSE <<Head(s)>> \o Without(Tail(s), x)

\* the position of x in s, 0 if absent
Position(s, x) ==
    IF \E i \in 1..Len(s) : s[i] = x
    THEN CHOOSE i \in 1..Len(s) : s[i] = x /\ \A j \in 1..(i - 1) : s[j] # x
    ELSE 0

\* C1: at most one Model is current: __enter__ is rejected while
\* Model.current is not None and leaves Model.current as it was, a
\* successful __enter__ makes the entering model current, and after the
\* with-block has been left Model.current is None
C1_SingleCurrentModel ==
    /\ (last.op = "enter" /\ last.current_before # None
           => last.status = "rejected" /\ current = last.current_before)
    /\ (last.op = "enter" /\ last.status = "ok" => current = last.m)
    /\ (last.op = "exit" => current = None)

\* C2: a model has a session only after finalize, and once the with-block
\* in which the session was created has been left the session is closed
C2_SessionClosedOnLeave ==
    /\ \A m \in Models : models[m].session # None => models[m].defined
    /\ (last.op = "exit" /\ models[last.m].session_in_block
           => models[last.m].session = "closed")

\* C3: on a normal exit of a finalized model the shutdown steps are taken
\* in the order request_stop, join, save, close; a checkpoint is written
\* after the join, before the close and on a session that is open
C3_ShutdownOrder ==
    last.op = "exit" /\ last.kind = "normal" /\ models[last.m].defined
        => /\ IsPrefix(Without(last.steps, "checkpoint"),
                       <<"request_stop", "join", "save", "close">>)
           /\ (last.status = "ok"
                  => Without(last.steps, "checkpoint")
                         = <<"request_stop", "join", "save", "close">>)
           /\ ("checkpoint" \in { last.steps[i] : i \in 1..Len(last.steps) }
                  => /\ last.session = "open"
                     /\ Position(last.steps, "checkpoint") = Position(last.steps, "save") + 1
                     /\ Position(last.steps, "join") = 2
                     /\ Position(last.steps, "close") \in {0, Position(last.steps, "checkpoint") + 1})

\* a finalized model with a model directory has been left normally, all
\* four steps taken and the checkpoint written
C3_Witness ==
    /\ last.op = "exit" /\ last.kind = "normal" /\ last.status = "ok"
    /\ models[last.m].defined
    /\ last.steps = <<"request_stop", "join", "save", "checkpoint", "close">>

\* the with-block has just been left and __exit__ wrote a checkpoint
WroteCheckpoint ==
    last.op = "exit" /\ "checkpoint" \in { last.steps[i] : i \in 1..Len(last.steps) }

\* the three conditions of a save: a body that ended normally, a finalized
\* model, a model directory that is a non-empty string
SaveConditions ==
    /\ last.kind = "normal"
    /\ models[last.m].defined
    /\ Truthy(models[last.m].model_directory)

C5_TrainingFollowsOptimize ==
    last.op = "call" /\ last.steps = <<"run">>
        => /\ last.feed_training = {last.optimize}
           /\ ((\E f \in last.fetches : f.element = "optimization") <=> last.optimize)

\* an optimizing invocation has run, and so has one that does not optimize
\* and queries a tensor registered under the key 'optimization'
C5_Witness ==
    /\ last.op = "call" /\ last.status = "ok"
    /\ \/ last.optimize
       \/ "optimization" \in Keys(last.fetches)

LeftChain(h, cur, a, b, c) ==
    LET r1 == Rshift(h, cur, UnitValue(a), UnitValue(b))
    IN  IF ~r1.ok THEN r1
        ELSE LET r2 == Rshift(r1.h, cur, r1.value, UnitValue(c))
             IN  [r2 EXCEPT !.calls = r1.calls \o r2.calls]

\* a >> (b >> c)
RightChain(h, cur, a, b, c) ==
    LET r1 == Rshift(h, cur, UnitValue(b), UnitValue(c))
    IN  IF ~r1.ok THEN r1
        ELSE LET r2 == Rshift(r1.h, cur, UnitValue(a), r1.value)
             IN  [r2 EXCEPT !.calls = r1.calls \o r2.calls]

\* xs >> v for the value v of a chain: tensors are final, a unit is applied
Applied(e, cur, xs) ==
    IF ~e.ok \/ e.value.kind = "tensors" THEN e
    ELSE LET r == Rshift(e.h, cur, TensorValue(xs), e.value)
         IN  [r EXCEPT !.calls = e.calls \o r.calls]

\* C7: for units a and b with a.num_in # 0, a >> b is accepted only if
\* a.num_out = b.num_in or b.num_in = -1, and then yields a new Composed
\* unit of a and b with num_in = a.num_in and num_out = b.num_out (it is
\* accepted whenever the condition holds and a model is current);
\* otherwise it is rejected and no unit is created
C7_ComposeArity ==
    (/\ result.op # "none" /\ result.left.kind = "unit" /\ result.right.kind = "unit"
     /\ units[result.left.unit].num_in # 0)
        => LET a == units[result.left.unit]
               b == units[result.right.unit]
           IN  /\ (result.ok
                      => /\ Composable(a, b)
                         /\ Len(units) = result.before + 1
                         /\ result.value = UnitValue(Len(units))
                         /\ units[Len(units)].cls = "Composed"
                         /\ units[Len(units)].first = result.left.unit
                         /\ units[Len(units)].second = result.right.unit
                         /\ units[Len(units)].num_in = a.num_in
                         /\ units[Len(units)].num_out = b.num_out)
               /\ (~Composable(a, b) => ~result.ok /\ Len(units) = result.before)
               /\ (~result.ok => Len(units) = result.before)
               /\ (Composable(a, b) /\ current # None => result.ok)

\* two units of different num_in have been composed
C7_Witness ==
    /\ result.op = "a >> b" /\ result.ok /\ result.value.kind = "unit"
    /\ units[result.left.unit].num_in # units[result.right.unit].num_in

\* the three units the chains are built from
BaseUnits == SubSeq(units, 1, 3)

\* the applications a chain of a, b, c makes on the inputs xs: a on xs, b on
\* the output of a, c on the output of b
InOrder(calls, a, b, c, xs) ==
    /\ Len(calls) = 3
    /\ calls[1].unit = a /\ calls[2].unit = b /\ calls[3].unit = c
    /\ calls[1].args = xs
    /\ \A i \in 1..Len(calls[2].args) :
          calls[2].args[i].src = a /\ calls[2].args[i].args = xs
    /\ \A i \in 1..Len(calls[3].args) :
          calls[3].args[i].src = b /\ calls[3].args[i].args = calls[2].args

\* the two chains of a, b, c agree: accepted or rejected alike, and applied
\* to the same inputs both call a, then b, then c, once each, each on the
\* output of the one before
ChainsAgree(a, b, c) ==
    LET L == LeftChain(BaseUnits, current, a, b, c)
        R == RightChain(BaseUnits, current, a, b, c)
    IN  /\ L.ok <=> R.ok
        /\ L.ok /\ R.ok
              => \A n \in 0..MaxInputs :
                    LET AL == Applied(L, current, Inputs(n))
                        AR == Applied(R, current, Inputs(n))
                        xs == IF BaseUnits[a].num_in = 0 THEN <<>> ELSE Inputs(n)
                    IN  /\ AL.ok <=> AR.ok
                        /\ AL.ok => /\ AL.value = AR.value
                                    /\ AL.calls = AR.calls
                                    /\ InOrder(AL.calls, a, b, c, xs)

\* C8 as stated: for units a, b, c the chains (a >> b) >> c and a >> (b >> c)
\* are accepted or rejected under the same arity conditions and make the
\* same applications
C8_Associative ==
    \A a, b, c \in 1..3 : ChainsAgree(a, b, c)

\* C8 amended: the chains (a >> b) >> c and a >> (b >> c) are accepted or
\* rejected alike and make the same applications whenever a is not a
\* source unit (a.num_in # 0), or a model is current and b.num_out # -1
C8_AssociativeUnlessEager ==
    \A a, b, c \in 1..3 :
        (\/ BaseUnits[a].num_in # 0
         \/ current # None /\ BaseUnits[b].num_out # -1)
            => ChainsAgree(a, b, c)

\* (a >> b) >> c has been built from three units, a not a source unit, and
\* a >> (b >> c) is accepted as well
C8_Witness ==
    /\ result.op = "(a >> b) >> c" /\ result.ok /\ result.value.kind = "unit"
    /\ result.left.kind = "unit"
    /\ LET ab == units[result.left.unit]
       IN  /\ ab.cls = "Composed"
           /\ RightChain(BaseUnits, current, ab.first, ab.second, result.right.unit).ok
           /\ Applied(LeftChain(BaseUnits, current, ab.first, ab.second, result.right.unit),
                      current, Inputs(units[ab.first].num_in)).ok

\* C9: whenever Reduction.forward of a unit with a valid name returns, to
\* one input or to several, it returns the result of a branch, never None
C9_ValidNameReturnsResult ==
    (fwd.op = "forward" /\ valid(red.reduction) /\ fwd.status = "returned")
        => fwd.value # None

\* C10: make_least_common_shape, given at least two tensors of equal rank,
\* fails its assertion exactly if some dimension at a rank not in
\* ignore_ranks is neither 1 nor the maximum of that rank; otherwise it
\* returns the tensors in input order, every dimension at a rank not in
\* ignore_ranks being the maximum, the multiple of a tiled tensor being the
\* maximum where its dimension was 1 at such a rank and 1 elsewhere, a
\* tensor with no dimension to tile and every dimension at a rank in
\* ignore_ranks being unchanged
C10_LeastCommonShape ==
    LET xs == given.xs
        ys == lcs.ys
        ranks == 1..Len(xs[1].dims)
        ignored(r) == (r - 1) \in given.ignore_ranks
        dim(i, r) == shape(xs[i])[r]
        most(r) == max({ dim(i, r) : i \in 1..Len(xs) })
        multiple(i, r) == IF dim(i, r) = 1 /\ ~ignored(r) THEN most(r) ELSE 1
    IN  ( /\ lcs.op = "make_least_common_shape"
          /\ Len(xs) > 1
          /\ \A i \in 1..Len(xs) : Len(xs[i].dims) = Len(xs[1].dims) )
        => /\ lcs.ok <=> \A i \in 1..Len(xs), r \in ranks :
                            ~ignored(r) => dim(i, r) \in {1, most(r)}
           /\ lcs.ok =>
                 /\ Len(ys) = Len(xs)
                 /\ \A i \in 1..Len(xs) :
                       /\ ys[i].src = xs[i].src
                       /\ Len(ys[i].dims) = Len(xs[i].dims)
                       /\ \A r \in ranks :
                             IF ignored(r) THEN ys[i].dims[r] = xs[i].dims[r]
                             ELSE shape(ys[i])[r] = most(r)
                       /\ IF \A r \in ranks : multiple(i, r) = 1 THEN ys[i] = xs[i]
                          ELSE ys[i].multiples = [r \in ranks |-> multiple(i, r)]

\* three tensors were handed in with a rank to ignore, the call returned,
\* a tensor was tiled and a dimension at the ignored rank differs from the
\* maximum of that rank
C10_Witness ==
    /\ lcs.op = "make_least_common_shape" /\ lcs.ok
    /\ Len(given.xs) = 3
    /\ \E i \in 1..3 : lcs.ys[i].multiples # <<>>
    /\ \E i, j \in 1..3, r \in 1..Len(given.xs[1].dims) :
          /\ (r - 1) \in given.ignore_ranks
          /\ shape(lcs.ys[i])[r] < shape(lcs.ys[j])[r]

\* the sequence s without the positions axes (counted from 0), which were
\* inserted in increasing order
RECURSIVE WithoutAxes(_, _)
WithoutAxes(s, axes) ==
    IF axes = <<>> THEN s
    ELSE LET a == axes[Len(axes)]
         IN  WithoutAxes(SubSeq(s, 1, a) \o SubSeq(s, a + 2, Len(s)), SubSeq(axes, 1, Len(axes) - 1))

\* C11: whenever make_broadcastable returns, it returns one tensor per input
\* in input order, the reference shape is an input shape of greatest rank
\* and, among those, of fewest dimensions equal to 1, every tensor returned
\* has the rank of the reference shape and at each position the reference
\* dimension or 1, and it is its input with axes of size 1 inserted: the
\* dimensions of the input are kept, in their order
C11_Broadcastable ==
    LET xs == given.xs
        ys == mb.ys
        ref == mb.ref_shape
        ones(s) == Cardinality({ r \in 1..Len(s) : s[r] = 1 })
    IN  (mb.op = "make_broadcastable" /\ mb.ok)
        => /\ Len(ys) = Len(xs)
           /\ \E i \in 1..Len(xs) : shape(xs[i]) = ref
           /\ \A i \in 1..Len(xs) :
                 \/ rank(xs[i]) < Len(ref)
                 \/ rank(xs[i]) = Len(ref) /\ ones(ref) <= ones(shape(xs[i]))
           /\ \A i \in 1..Len(xs) :
                 /\ ys[i].src = xs[i].src
                 /\ rank(ys[i]) = Len(ref)
                 /\ \A r \in 1..Len(ref) : shape(ys[i])[r] \in {ref[r], 1}
                 /\ \A n \in 1..Len(mb.axes[i]) : ys[i].dims[mb.axes[i][n] + 1] = {1}
                 /\ WithoutAxes(ys[i].dims, mb.axes[i]) = xs[i].dims

\* the call returned for an input of lower rank than the reference shape,
\* with an axis inserted before a dimension of the input
C11_Witness ==
    /\ mb.op = "make_broadcastable" /\ mb.ok
    /\ \E i \in 1..Len(given.xs) :
          /\ rank(given.xs[i]) < Len(mb.ref_shape)
          /\ mb.axes[i] # <<>>
          /\ rank(mb.ys[i]) = Len(mb.ref_shape)

\* the ways the shape s is a subsequence of the shape ref: the increasing
\* maps of the positions of s to positions of ref of the same dimension
Embeddings(s, ref) ==
    { f \in [1..Len(s) -> 1..Len(ref)] :
        /\ \A k \in 1..Len(s) : s[k] = ref[f[k]]
        /\ \A k \in 1..(Len(s) - 1) : f[k] < f[k + 1] }

\* C12: make_broadcastable returns whenever every input of the rank of the
\* reference shape has at each position the reference dimension or 1 and
\* every input of lower rank is a subsequence of the reference shape in
\* exactly one way, also when the positions it lacks come after its last
\* dimension
C12_SubsequenceInputSucceeds ==
    LET xs == given.xs
        ref == mb.ref_shape
    IN  ( /\ mb.op = "make_broadcastable"
          /\ Len(xs) > 0
          /\ \A i \in 1..Len(xs) :
                IF rank(xs[i]) = Len(ref)
                THEN \A r \in 1..Len(ref) : shape(xs[i])[r] \in {ref[r], 1}
                ELSE Cardinality(Embeddings(shape(xs[i]), ref)) = 1 )
        => mb.ok

\* C13: when items >> u is accepted for a tuple of items, the source units
\* among the items have been evaluated once each, in order and before
\* anything else. If no other unit is among the items, u was applied once,
\* to the tensors of the items and the outputs of the source units in the
\* order of the items, and len(items) == u.num_in or u.num_in == -1. If some
\* other unit is among the items, nothing but the source units was applied
\* and the value is a new Composed unit with num_in == 1 and the num_out of
\* u, every unit left among the items has num_out == 1 and
\* len(items) == u.num_in or u.num_in == -1
C13_ListOperand ==
    LET items == result.left.tensors
        u == result.right.unit
        n == Len(items)
        IsUnit(k) == items[k].kind = "unit"
        IsSource(k) == IsUnit(k) /\ units[items[k].unit].num_in = 0
        upTo[k \in 0..n] == IF k = 0 THEN <<>>
                            ELSE upTo[k - 1] \o (IF IsSource(k) THEN <<k>> ELSE <<>>)
        sources == upTo[n]
        input(k) == IF IsSource(k) THEN Tensor(items[k].unit, 1, <<>>) ELSE items[k].tensors[1]
    IN  (result.op = "items >> u" /\ result.ok)
        => /\ Len(result.calls) >= Len(sources)
           /\ \A j \in 1..Len(sources) :
                 result.calls[j] = [unit |-> items[sources[j]].unit, args |-> <<>>]
           /\ n = units[u].num_in \/ units[u].num_in = -1
           /\ IF \E k \in 1..n : IsUnit(k) /\ ~IsSource(k)
              THEN /\ Len(result.calls) = Len(sources)
                   /\ result.value = UnitValue(result.before + 1)
                   /\ Len(units) = result.before + 1
                   /\ units[result.before + 1].num_in = 1
                   /\ units[result.before + 1].num_out = units[u].num_out
                   /\ \A k \in 1..n : (IsUnit(k) /\ ~IsSource(k)) => units[items[k].unit].num_out = 1
              ELSE /\ Len(result.calls) = Len(sources) + 1
                   /\ result.calls[Len(sources) + 1] = [unit |-> u, args |-> [k \in 1..n |-> input(k)]]
                   /\ result.value.kind = "tensors"
                   /\ Len(units) = result.before

\* a tuple of a source unit and another unit was composed with u, after the
\* source unit was evaluated
C13_Witness ==
    /\ result.op = "items >> u" /\ result.ok
    /\ Len(result.left.tensors) = 2
    /\ result.left.tensors[1].kind = "unit"
    /\ units[result.left.tensors[1].unit].num_in = 0
    /\ result.left.tensors[2].kind = "unit"
    /\ units[result.left.tensors[2].unit].num_in # 0
    /\ result.value.kind = "unit"
    /\ Len(result.calls) = 1

\* C14: the dictionary a call returns holds exactly the queried entries: none
\* for query=None, the queried tensor under the key 'query' for a string,
\* each queried tensor under its name for a collection of names; what was
\* fetched for self.optimization and self.summaries is never in it
C14_ReturnsQueriedEntries ==
    (last.op = "call" /\ last.status = "ok")
        => /\ Keys(last.returned) =
                 CASE last.query.kind = "none"  -> {}
                   [] last.query.kind = "str"   -> {"query"}
                   [] last.query.kind = "names" -> last.query.names
           /\ \A f \in last.returned :
                 /\ f.element = "tensor"
                 /\ f.name \in last.query.names
                 /\ last.query.kind = "names" => f.key = f.name

\* a call with optimize and summarize set fetched self.optimization and
\* self.summaries beside a queried tensor and returned
C14_Witness ==
    /\ last.op = "call" /\ last.status = "ok"
    /\ last.query.kind = "str"
    /\ {"optimization", "summaries"} \subseteq Keys(last.fetches)
    /\ Keys(last.returned) = {"query"}

\* C15: in the feed_dict of every call that reaches session.run, the
\* training placeholder is fed from optimize (True exactly if optimize) and
\* the dropout placeholder from dropout (0.0 for None, else the argument,
\* which is in [0.0, 1.0)), also when the data argument names a key under
\* which a control placeholder was registered; every entry fed from data is
\* a placeholder registered under a key of the data dictionary (the only
\* registered placeholder for a bare value); and after __enter__ neither
\* the keys 'training' and 'dropout' nor the control placeholders are in
\* Model.placeholders
C15_ControlFeeds ==
    LET r == models[last.m]
    IN  /\ (last.op = "call" /\ last.steps = <<"run">>)
            => /\ \E f \in last.feed_dict : f.placeholder = Training(r)
               /\ \E f \in last.feed_dict : f.placeholder = Dropout(r)
               /\ \A f, g \in last.feed_dict : f.placeholder = g.placeholder => f = g
               /\ \A f \in last.feed_dict :
                     /\ f.placeholder = Training(r)
                           => f.from = "optimize" /\ f.value = (IF last.optimize THEN 1 ELSE 0)
                     /\ f.placeholder = Dropout(r)
                           => /\ f.from = "dropout"
                              /\ {f.value} = (IF last.dropout = {} THEN {0} ELSE last.dropout)
                              /\ 0 <= f.value /\ f.value < 100
                     /\ f.from = "data"
                           => \E e \in r.placeholders :
                                 /\ e.placeholder = f.placeholder
                                 /\ last.data.kind = "dict" => e.key \in last.data.names
        /\ (last.op = "enter" /\ last.status = "ok")
            => /\ PlaceholderKeys(r) \cap {"training", "dropout"} = {}
               /\ \A e \in r.placeholders : e.placeholder \notin {Training(r), Dropout(r)}

\* a call without optimize returned whose data dictionary named a key under
\* which the training placeholder itself was registered
C15_Witness ==
    /\ last.op = "call" /\ last.status = "ok" /\ ~last.optimize
    /\ last.data.kind = "dict"
    /\ \E e \in models[last.m].placeholders :
          e.key \in last.data.names /\ e.placeholder = Training(models[last.m])
    /\ \E f \in last.feed_dict : f.placeholder = Training(models[last.m]) /\ f.value = 0

\* C16: a call of finalize on a model that is defined is rejected and
\* changes nothing, a call that succeeds finds the model not defined and
\* leaves it defined, and no operation takes defined from True to False: so
\* finalize succeeds at most once per model
C16_FinalizeOnce ==
    [][ \A m \in Models :
          /\ models[m].defined => models'[m].defined
          /\ (last'.op = "finalize" /\ last'.m = m /\ models[m].defined)
                => /\ last'.status = "rejected"
                   /\ models' = models /\ current' = current /\ graph' = graph
          /\ (last'.op = "finalize" /\ last'.m = m /\ last'.status = "ok")
                => ~models[m].defined /\ models'[m].defined ]_vars

\* finalize was called on a model that is defined and has been left and
\* entered again
C16_Witness ==
    /\ last.op = "finalize" /\ last.status = "rejected"
    /\ models[last.m].defined
    /\ current = last.m
    /\ models[last.m].scope_enters = 2

\* C17: a call of register_tensor with a key that is registered or with the
\* key 'loss' or 'dropout' is rejected and leaves Model.tensors as it was;
\* a call that is accepted adds one entry under a new key and leaves every
\* other entry as it was; and the entry 'loss' is written by finalize and
\* by __exit__ only
C17_RegisterTensorNeverOverwrites ==
    [][ LET m == last'.m
            old == models[m].tensors
            new == models'[m].tensors
            loss(entries) == { e \in entries : e.key = "loss" }
        IN  /\ last'.op = "register_tensor"
                => /\ old \subseteq new
                   /\ (last'.args[1] \in RegisteredKeys(models[m]) \cup {"loss", "dropout"})
                         => last'.status = "rejected" /\ new = old
                   /\ last'.status = "ok"
                         => new = old \cup { [key |-> last'.args[1], tensor |-> last'.args[2]] }
            /\ \A n \in Models :
                  loss(models'[n].tensors) # loss(models[n].tensors)
                     => last'.op \in {"finalize", "exit"} /\ last'.m = n ]_vars

\* register_tensor was called with a registered key and another tensor
\* than the one registered under it, and was rejected
C17_Witness ==
    /\ last.op = "register_tensor" /\ last.status = "rejected"
    /\ last.args[1] \notin {"loss", "dropout"}
    /\ \E e \in models[last.m].tensors : e.key = last.args[1] /\ e.tensor # last.args[2]

RECURSIVE SumParameters(_)
SumParameters(entries) ==
    IF entries = {} THEN 0
    ELSE LET e == CHOOSE e \in entries : TRUE
         IN  e.num_parameters + SumParameters(entries \ {e})

RECURSIVE SumBytes(_)
SumBytes(entries) ==
    IF entries = {} THEN 0
    ELSE LET e == CHOOSE e \in entries : TRUE
         IN  e.num_bytes + SumBytes(entries \ {e})

\* C18: num_parameters and num_bytes are the sums, over the keys of
\* Model.variables, of the num_parameters and num_bytes given when the key
\* was first registered; a call of register_variable with a registered key
\* changes nothing, and is rejected if it hands in another variable
C18_CountersSumFirstRegistrations ==
    /\ [](\A m \in Models :
             /\ { e.key : e \in models[m].first_registered } = VariableKeysOf(models[m])
             /\ Cardinality(models[m].first_registered) = Cardinality(VariableKeysOf(models[m]))
             /\ models[m].num_parameters = SumParameters(models[m].first_registered)
             /\ models[m].num_bytes = SumBytes(models[m].first_registered))
    /\ [][ (last'.op = "register_variable" /\ last'.args[1] \in VariableKeysOf(models[last'.m]))
              => /\ models' = models
                 /\ last'.status = "rejected"
                       <=> [key |-> last'.args[1], variable |-> last'.args[2]]
                               \notin models[last'.m].variables ]_vars

\* a registered key was registered again with the same variable and other
\* sizes, while the model holds two keys
C18_Witness ==
    /\ last.op = "register_variable" /\ last.status = "ok"
    /\ Cardinality(models[last.m].variables) = 2
    /\ \E e \in models[last.m].first_registered :
          e.key = last.args[1] /\ e.num_parameters # last.args[3]

\* C19: initialize of a unit runs once: initialized is True exactly when
\* initialize has run once; it never returns to False; the first
\* application of a unit whose number of inputs is accepted runs initialize
\* before the body of forward, later applications do not run it; and a
\* direct call of initialize on an initialized unit is rejected and changes
\* nothing
C19_InitializeOnce ==
    /\ [](\A u \in 1..Len(objects) :
             objects[u].initializations = IF objects[u].initialized THEN 1 ELSE 0)
    /\ [][ \A u \in 1..Len(objects) :
             LET before == objects[u]
                 after == objects'[u]
                 evs == last'.events
                 inits == { k \in 1..Len(evs) : evs[k] = Event("initialize", u) }
                 bodies == { k \in 1..Len(evs) : evs[k] = Event("forward", u) }
             IN  /\ before.initialized => after.initialized /\ inits = {}
                 /\ Cardinality(inits) = after.initializations - before.initializations
                 /\ (~before.initialized /\ bodies # {})
                       => inits # {} /\ \A i \in inits, b \in bodies : i < b
                 /\ ( /\ last'.op = "unit" /\ last'.args[1] = u
                      /\ ~before.initialized
                      /\ ArityAccepts(before, Len(last'.args[2])) )
                       => after.initialized /\ evs[1] = Event("initialize", u) /\ bodies # {}
                 /\ (last'.op = "unit" /\ last'.args[1] = u /\ before.initialized
                        /\ ArityAccepts(before, Len(last'.args[2]))
                        /\ last'.args[3] \notin OutputKeysOf(before))
                       => bodies # {}
                 /\ (last'.op = "initialize" /\ last'.args[1] = u /\ before.initialized)
                       => last'.status = "rejected" /\ objects' = objects ]_vars

\* the Composed unit has been applied a second time, which ran the bodies
\* of forward without initialize
C19_Witness ==
    /\ last.op = "unit" /\ last.status = "ok" /\ last.args[1] = 4
    /\ objects[4].forwards = 2 /\ objects[4].initializations = 1
    /\ objects[1].forwards = 2 /\ objects[1].initializations = 1
    /\ last.events = << Event("forward", 4), Event("forward", 1), Event("forward", 2) >>

C22_ScopeExitedOnce ==
    \A m \in Models :
       /\ models[m].scope_exits <= models[m].scope_enters
       /\ (block # m /\ last.op # "enter")
             => models[m].scope_exits = models[m].scope_enters

\* C23: the training graph of a model is built at most once, and it has
\* been built once when the with-block of the model has ended normally
C23_TrainingGraphBuiltOnce ==
    \A m \in Models :
       /\ models[m].built <= 1
       /\ (last.op = "exit" /\ last.m = m /\ last.kind = "normal" /\ last.status = "ok")
             => models[m].built = 1

\* C24: an __enter__ that is rejected while another model is current
\* leaves Model.current, the fields of every model and the default graph
\* as they were
C24_RejectedEnterHasNoEffect ==
    [][ (last'.op = "enter" /\ last'.status = "rejected" /\ current # None)
          => current' = current /\ models' = models /\ graph' = graph ]_vars

\* C25: when coordinator.join or save raises in the normal exit of a
\* finalized model, the session of the model has been closed and
\* Model.current is None
C25_FailedShutdownStillCloses ==
    ( /\ last.op = "exit" /\ last.kind = "normal" /\ last.status = "raised"
      /\ models[last.m].defined
      /\ last.steps # <<>> /\ last.steps[1] = "request_stop" )
    => models[last.m].session = "closed" /\ current = None

====
